---------------------------- MODULE Spec2Model ----------------------------
(***************************************************************************)
(* A model of the observers-backend: the credential and token service,     *)
(* the access checks of the route handlers over the persistence layer, and *)
(* the chat connection registry.                                           *)
(*                                                                         *)
(* Strings that the code inspects character by character (usernames,       *)
(* e-mail addresses) are sequences of one-character strings.  An optional  *)
(* request field is <<>> when it is unset and <<v>> when it carries v.     *)
(* An id of 0 stands for Python's None.                                    *)
(***************************************************************************)
EXTENDS Integers, Sequences, FiniteSets, TLC

VARIABLES
    db,       \* the database: one function from id to row per table
    secret,   \* security_token.SECRET_KEY of the running process
    now,      \* the clock, in ticks
    token,    \* the token the client holds, with how it was issued; <<>>: none
    chat,     \* the chat: the socket manager, the handlers, the clients
    last      \* the last request: its operation, caller and outcome

(***************************************************************************)
(* Bounds of the model.                                                    *)
(***************************************************************************)
MaxUsers == 3
TicksPerSecond == 2
MaxQuestions == 1
MaxComments == 1
MaxAdminRows == 2
MaxConns == 2
MaxMsgs == 1
MaxRestarts == 2

(***************************************************************************)
(* Program constants.                                                      *)
(***************************************************************************)
DEFAULT_EXPIRE_MINUTES == 15
ACCESS_TOKEN_EXPIRE_MINUTES == 60

(***************************************************************************)
(* Characters and the regular expression of services.isemail.              *)
(***************************************************************************)
LowerCh == {"a", "b", "c", "d", "e", "i", "m", "n", "o", "r", "s", "v"}
UpperCh == {"A"}
DigitCh == {"1"}

\* [A-Za-z0-9]
AlnumClass == LowerCh \cup UpperCh \cup DigitCh
\* [.-_] is the code point range 0x2E..0x5F: '.', '/', digits, ':'..'@',
\* upper-case letters, '['..'_'.  It holds neither '-' nor lower case.
SepClass == {".", "@", "_"} \cup UpperCh \cup DigitCh
\* [A-Za-z0-9-]
DomainClass == AlnumClass \cup {"-"}
\* [A-Z|a-z]
TldClass == LowerCh \cup UpperCh \cup {"|"}

\* One step of the automaton of
\*   ^([A-Za-z0-9]+[.-_])*[A-Za-z0-9]+@[A-Za-z0-9-]+(\.[A-Z|a-z]{2,})+$
\* 0: a run of alphanumerics starts   1: inside such a run   2: after '@'
\* 3: inside the domain   4: after a '.' of the domain   5: one letter of
\* the top-level part   6: two or more letters of it (accepting).
EmailStep(q, ch) ==
    CASE q = 0 -> IF ch \in AlnumClass THEN {1} ELSE {}
      [] q = 1 -> (IF ch \in AlnumClass THEN {1} ELSE {})
                  \cup (IF ch \in SepClass THEN {0} ELSE {})
                  \cup (IF ch = "@" THEN {2} ELSE {})
      [] q = 2 -> IF ch \in DomainClass THEN {3} ELSE {}
      [] q = 3 -> (IF ch \in DomainClass THEN {3} ELSE {})
                  \cup (IF ch = "." THEN {4} ELSE {})
      [] q = 4 -> IF ch \in TldClass THEN {5} ELSE {}
      [] q = 5 -> IF ch \in TldClass THEN {6} ELSE {}
      [] q = 6 -> (IF ch \in TldClass THEN {6} ELSE {})
                  \cup (IF ch = "." THEN {4} ELSE {})
      [] OTHER -> {}

RECURSIVE EmailRun(_, _, _)
EmailRun(qs, s, i) ==
    IF i > Len(s) THEN qs
    ELSE EmailRun(UNION {EmailStep(q, s[i]) : q \in qs}, s, i + 1)

isemail(email) == 6 \in EmailRun({0}, email, 1)

(***************************************************************************)
(* Strings of the model.                                                   *)
(***************************************************************************)
S_admin == <<"a", "d", "m", "i", "n">>
S_admin_email ==
    <<"a", "d", "m", "i", "n", "@", "o", "b", "s", "e", "r", "v", "e", "r", "s",
      ".", "c", "o", "m">>
S_bob == <<"b", "o", "b">>
\* A username of the shape of an e-mail address: UserCreate.username is a
\* plain str, so registration accepts it.
S_a_at_b == <<"a", "@", "b", ".", "c", "o">>
S_bob_email == <<"b", "o", "b", "@", "b", ".", "c", "o">>
\* A valid address whose local part holds a '-'.
S_dash_email == <<"a", "-", "b", "@", "b", ".", "c", "o">>

Usernames == {S_admin, S_bob, S_a_at_b}
Emails == {S_a_at_b, S_bob_email, S_dash_email}
Passwords == {"admin", "pw", ""}

\* isemail of every string of the model, computed once.
IsEmailOf == [s \in Usernames \cup Emails \cup {S_admin_email} |-> isemail(s)]

(***************************************************************************)
(* security/hashing.py.  A stored password is [hashed, text]: the bcrypt   *)
(* hash of text, or text itself.  The salt is left out: verification does  *)
(* not depend on it.                                                       *)
(***************************************************************************)
get_password_hash(password) == [hashed |-> TRUE, text |-> password]

verify_password(plain_password, hashed_password) ==
    hashed_password.hashed /\ hashed_password.text = plain_password

(***************************************************************************)
(* The database (database/models.py) and the generic part of crud.py.      *)
(***************************************************************************)
NoRows == [i \in {} |-> 0]

Tables == {"roles", "users", "questions", "comments", "notifications",
           "tags", "articles"}

InitDb ==
    [roles |-> (1 :> [title |-> "Admin"]) @@ (2 :> [title |-> "User"]),
     users |-> (1 :> [username |-> S_admin, email |-> S_admin_email,
                      password |-> get_password_hash("admin"), role_id |-> 1]),
     questions |-> NoRows,
     comments |-> NoRows,
     notifications |-> NoRows,
     tags |-> NoRows,
     articles |-> NoRows,
     nextid |-> [t \in Tables |-> CASE t = "roles" -> 3
                                    [] t = "users" -> 2
                                    [] OTHER -> 1]]

Restrict(f, S) == [i \in S |-> f[i]]

Ids(d, t) == DOMAIN d[t]

\* INSERT of one row: the table's sequence gives the id and never reuses one.
Insert(d, t, row) ==
    [d EXCEPT ![t] = d[t] @@ (d.nextid[t] :> row),
              !.nextid[t] = d.nextid[t] + 1]

\* A result of a crud function or of a route handler: the database it
\* leaves, the HTTP status, the detail of the error, and the value returned
\* (an id; 0 for None).
Result(d, status, detail, ret) ==
    [db |-> d, status |-> status, detail |-> detail, ret |-> ret]

\* An HTTPException leaves the session uncommitted: the database is the one
\* the request found.
Raise(d, status, detail) == Result(d, status, detail, 0)

Ok(d, ret) == Result(d, 200, "", ret)

NoContent(d) == Result(d, 204, "", 0)

\* query(cls).filter(column == value).first(); 0 for None.
First(d, t, col, value) ==
    LET S == {i \in Ids(d, t) : d[t][i][col] = value}
    IN  IF S = {} THEN 0 ELSE CHOOSE i \in S : \A j \in S : i <= j

role_title(d, user_id) == d.roles[d.users[user_id].role_id].title

\* The rows inserted so far into the tables of the administration.
AdminRows(d) ==
    (d.nextid["roles"] - InitDb.nextid["roles"])
        + (d.nextid["tags"] - 1) + (d.nextid["articles"] - 1)
        + (d.nextid["notifications"] - 1)

(***************************************************************************)
(* Deletion.  models.py gives Role.users, User.notifications,              *)
(* User.questions, User.comments, Question.notifications and               *)
(* Question.comments cascade='all,delete'; the association tables          *)
(* (tag_question, users_like_article, users_dislike_article) lose the rows *)
(* of a deleted end.                                                       *)
(***************************************************************************)
DropQuestions(d, Q) ==
    [d EXCEPT
        !.questions = Restrict(@, DOMAIN @ \ Q),
        !.comments = Restrict(@, {c \in DOMAIN @ : @[c].question_id \notin Q}),
        !.notifications =
            Restrict(@, {n \in DOMAIN @ : @[n].question_id \notin Q})]

DropUsers(d, U) ==
    LET d1 == DropQuestions(d, {q \in Ids(d, "questions") :
                                   d.questions[q].author_id \in U})
    IN  [d1 EXCEPT
            !.users = Restrict(@, DOMAIN @ \ U),
            !.comments = Restrict(@, {c \in DOMAIN @ : @[c].author_id \notin U}),
            !.notifications =
                Restrict(@, {n \in DOMAIN @ : @[n].user_id \notin U}),
            !.articles = [a \in DOMAIN @ |->
                            [@[a] EXCEPT !.likes = SelectSeq(@, LAMBDA u : u \notin U),
                                         !.dislikes = SelectSeq(@, LAMBDA u : u \notin U)]]]

DropRoles(d, R) ==
    LET d1 == DropUsers(d, {u \in Ids(d, "users") : d.users[u].role_id \in R})
    IN  [d1 EXCEPT !.roles = Restrict(@, DOMAIN @ \ R)]

DropTags(d, T) ==
    [d EXCEPT !.tags = Restrict(@, DOMAIN @ \ T),
              !.questions = [q \in DOMAIN @ |-> [@[q] EXCEPT !.tags = @ \ T]]]

\* crud.delete_object
delete_object(d, t, object_id) ==
    IF object_id \notin Ids(d, t)
    THEN Raise(d, 404, "with this id does not exist")
    ELSE NoContent(
            CASE t = "roles" -> DropRoles(d, {object_id})
              [] t = "users" -> DropUsers(d, {object_id})
              [] t = "questions" -> DropQuestions(d, {object_id})
              [] t = "tags" -> DropTags(d, {object_id})
              [] OTHER -> [d EXCEPT ![t] = Restrict(@, DOMAIN @ \ {object_id})])

(***************************************************************************)
(* crud.py: users.                                                         *)
(***************************************************************************)
\* crud.create_user; user is a schemas.UserCreate.
crud_create_user(d, user) ==
    IF \E i \in Ids(d, "users") :
           d.users[i].username = user.username \/ d.users[i].email = user.email
    THEN Raise(d, 403, "User with this username or email already exists.")
    ELSE IF user.role_id \notin Ids(d, "roles")
    THEN Raise(d, 404, "with this id does not exist")
    ELSE Ok(Insert(d, "users",
                   [username |-> user.username, email |-> user.email,
                    password |-> get_password_hash(user.password),
                    role_id |-> user.role_id]),
            d.nextid["users"])

\* crud.update_user; user is a schemas.UserUpdate, each field an option.
\* A password that is falsy (the empty string) is not hashed, and is still
\* among the fields that were set.
crud_update_user(d, user_id, user) ==
    IF user_id \notin Ids(d, "users")
    THEN Raise(d, 404, "with this id does not exist")
    ELSE IF /\ user.email # <<>>
            /\ First(d, "users", "email", user.email[1]) \notin {0, user_id}
    THEN Raise(d, 403, "User with this email already exists.")
    ELSE LET pw == IF user.password = <<>> THEN d.users[user_id].password
                   ELSE IF user.password[1] # ""
                        THEN get_password_hash(user.password[1])
                        ELSE [hashed |-> FALSE, text |-> user.password[1]]
             em == IF user.email = <<>> THEN d.users[user_id].email
                   ELSE user.email[1]
         IN  Ok([d EXCEPT !.users[user_id].password = pw,
                          !.users[user_id].email = em], user_id)

(***************************************************************************)
(* services.py, security/security_token.py, dependencies.py.               *)
(***************************************************************************)
\* services.get_user_by_username_or_email; 0 for None.
get_user_by_username_or_email(d, username) ==
    IF IsEmailOf[username] THEN First(d, "users", "email", username)
    ELSE First(d, "users", "username", username)

\* timedelta(minutes=m), in ticks.
Minutes(m) == m * 60 * TicksPerSecond

\* timegm(t.utctimetuple()): the whole seconds of an instant; python-jose
\* stores "exp" so and reads the clock so.
utc_seconds(t) == t \div TicksPerSecond

\* security_token.create_access_token at instant t under the key `key`.
\* data is [sub |-> option]; expires_delta is an option, in ticks.
\* `if expires_delta:` is false for None and for timedelta(0).
create_access_token(data, expires_delta, t, key) ==
    LET expire == IF expires_delta # <<>> /\ expires_delta[1] # 0
                  THEN t + expires_delta[1]
                  ELSE t + Minutes(DEFAULT_EXPIRE_MINUTES)
    IN  [sub |-> data.sub, exp |-> utc_seconds(expire), key |-> key]

\* jwt.decode: TRUE when it raises a JWTError (a signature that does not
\* verify under `key`; ExpiredSignatureError when exp < now).
jwt_decode_raises(user_token, key, t) ==
    \/ user_token.key # key
    \/ user_token.exp < utc_seconds(t)

get_user_telling(user_token, d, key, t) ==
    IF jwt_decode_raises(user_token, key, t)
    THEN Raise(d, 401, "Could not validate credentials")
    ELSE IF user_token.sub = <<>> THEN Raise(d, 401, "Could not validate credentials")
    ELSE LET user == get_user_by_username_or_email(d, user_token.sub[1])
         IN  IF user = 0 THEN Raise(d, 401, "User not found") ELSE Ok(d, user)

\* dependencies.get_user: the status, the detail and the user id (0: none).
get_user(user_token, d, key, t) ==
    LET credentials_exception == Raise(d, 401, "Could not validate credentials")
    IN  IF jwt_decode_raises(user_token, key, t) THEN credentials_exception
        ELSE IF user_token.sub = <<>> THEN credentials_exception
        ELSE LET user == get_user_by_username_or_email(d, user_token.sub[1])
             IN  IF user = 0 THEN credentials_exception ELSE Ok(d, user)

\* security/oauth2.authenticate_user; 0 for False.
authenticate_user(d, username, password) ==
    LET user == get_user_by_username_or_email(d, username)
    IN  IF user = 0 THEN 0
        ELSE IF ~verify_password(password, d.users[user].password) THEN 0
        ELSE user

(***************************************************************************)
(* decorators.py.  Each is TRUE when the wrapper raises the 403.           *)
(***************************************************************************)
raise_403_if_not_admin_never(d, current_user) == FALSE

raise_403_if_not_admin(d, current_user) ==
    current_user # 0 /\ role_title(d, current_user) # "Admin"

raise_403_if_no_access_never(d, current_user, user_id) == FALSE

raise_403_if_no_access(d, current_user, user_id) ==
    /\ current_user # 0
    /\ role_title(d, current_user) # "Admin"
    /\ current_user # user_id

(***************************************************************************)
(* The record of the last request.  caller is the current_user that        *)
(* Depends(get_current_user) resolved (0: the route takes none), admin     *)
(* whether its role's title was 'Admin' when the request arrived, tid the  *)
(* id the request names, pre the row with that id before the request       *)
(* (<<>>: none), req the request body.                                     *)
(***************************************************************************)
NoRequest ==
    [op |-> "startup", caller |-> 0, admin |-> FALSE, tid |-> 0, pre |-> <<>>,
     req |-> <<>>, status |-> 0, detail |-> "", ret |-> 0, changed |-> FALSE]

Row(d, t, id) == IF id \in Ids(d, t) THEN d[t][id] ELSE <<>>

\* The request `op` of `caller` on row `tid` of table `t` ended as `res`.
Respond(op, caller, t, tid, req, res) ==
    /\ db' = res.db
    /\ last' = [op |-> op, caller |-> caller,
                admin |-> caller # 0 /\ role_title(db, caller) = "Admin",
                tid |-> tid, pre |-> Row(db, t, tid), req |-> req,
                status |-> res.status, detail |-> res.detail, ret |-> res.ret,
                changed |-> res.db # db]

(***************************************************************************)
(* routers/users/users.py.                                                 *)
(***************************************************************************)
\* POST /users/: no current_user, no decorator.
create_user(user) ==
    /\ db.nextid["users"] <= MaxUsers
    /\ Respond("create_user", 0, "users", 0, user, crud_create_user(db, user))
    /\ UNCHANGED <<secret, now, token, chat>>

\* DELETE /users/{user_id}/
delete_user(current_user, user_id) ==
    /\ current_user \in Ids(db, "users")
    /\ Respond("delete_user", current_user, "users", user_id, <<>>,
               IF raise_403_if_no_access(db, current_user, user_id)
               THEN Raise(db, 403, "You are not that user.")
               ELSE delete_object(db, "users", user_id))
    /\ UNCHANGED <<secret, now, token, chat>>

\* PATCH /users/{user_id}/
update_user(current_user, user_id, user) ==
    /\ current_user \in Ids(db, "users")
    /\ Respond("update_user", current_user, "users", user_id, user,
               IF raise_403_if_no_access(db, current_user, user_id)
               THEN Raise(db, 403, "You are not that user.")
               ELSE crud_update_user(db, user_id, user))
    /\ UNCHANGED <<secret, now, token, chat>>

(***************************************************************************)
(* security/router.py and the token's life.  The token a client holds is   *)
(* [jwt, iat, delta, uid]: the token, the instant of its issue, the        *)
(* expires_delta it was asked with, and the id of the                       *)
(* identity that logged in for it (0: it was not issued by a login).       *)
(* Tokens are stateless and do not interact, so one is followed at a time; *)
(* tokens are issued at the instants IssueInstants and used at any later   *)
(* instant.                                                                *)
(***************************************************************************)
IssueInstants == {0, 1, TicksPerSecond}

Issued(jwt, delta, uid) == [jwt |-> jwt, iat |-> now, delta |-> delta, uid |-> uid]

\* POST /api/token/
login_for_access_token(username, password) ==
    LET user == authenticate_user(db, username, password)
        access_token_expires == <<Minutes(ACCESS_TOKEN_EXPIRE_MINUTES)>>
        access_token ==
            create_access_token([sub |-> <<db.users[user].username>>],
                                access_token_expires, now, secret)
    IN  /\ now \in IssueInstants
        /\ IF user = 0
           THEN /\ Respond("login", 0, "users", 0, <<>>,
                           Raise(db, 401, "Incorrect username or password"))
                /\ UNCHANGED token
           ELSE /\ Respond("login", 0, "users", user, <<>>, Ok(db, user))
                /\ token' = <<Issued(access_token, access_token_expires, user)>>
        /\ UNCHANGED <<secret, now, chat>>

\* A call create_access_token(data={"sub": sub}, expires_delta=delta).
issue_token(sub, delta) ==
    /\ now \in IssueInstants
    /\ token' =
          <<Issued(create_access_token([sub |-> <<sub>>], delta, now, secret),
                   delta, 0)>>
    /\ last' = [NoRequest EXCEPT !.op = "issue_token"]
    /\ UNCHANGED <<db, secret, now, chat>>

\* GET /users/me/ with the token: Depends(get_current_user).
read_users_me ==
    /\ token # <<>>
    /\ Respond("read_users_me", 0, "users", 0, <<>>,
               get_user(token[1].jwt, db, secret, now))
    /\ UNCHANGED <<secret, now, token, chat>>

\* Time passes.  The instants looked at: a second's start and its middle,
\* around the start and around both lifetimes of a token.
Instants ==
    UNION {{m, m + 1, m + TicksPerSecond} :
             m \in {0, Minutes(DEFAULT_EXPIRE_MINUTES),
                    Minutes(ACCESS_TOKEN_EXPIRE_MINUTES)}}

Tick(t) ==
    /\ t > now
    /\ now' = t
    /\ UNCHANGED <<db, secret, token, chat, last>>

(***************************************************************************)
(* routers/chat/chat.py and routers/chat/socket_manager.py.  Connections   *)
(* are numbered in the order they are opened; each has one handler task    *)
(* (the coroutine chat).  chat holds:                                      *)
(*   active_connections  the list of socket_manager, of connections (the   *)
(*                       user of a registration is user[c]);               *)
(*   pc[c]    where the handler of c is suspended: "idle" (not opened),     *)
(*            "refused" (the dependency raised), "accept" (in              *)
(*            websocket.accept), "hello", "relay", "left" (in a send_json   *)
(*            of the broadcast of line 24, 29, 33), "receive" (in          *)
(*            receive_json), "done" (returned), "crashed" (ended by an      *)
(*            exception it does not catch);                                *)
(*   user[c]  the id of current_user;                                      *)
(*   it[c]    the index the list iterator of its send() has reached;       *)
(*   data[c]  what its send() is broadcasting;                             *)
(*   open[c]  whether the transport of c is open;                          *)
(*   sent[c]  how many frames the client of c has sent;                    *)
(*   log[c]   the payloads send_json has put on c, each with the handler   *)
(*            whose broadcast it was (by).                                 *)
(* For the claims: connects and disconnects count the calls that           *)
(* completed; during[c] is the set of connections registered ever since    *)
(* the broadcast of c began; finished the last broadcast that ran to its   *)
(* end; leftDue[c] the connections registered when c closed and ever since *)
(* until its handler ended; present[c] the connections registered when c   *)
(* was registered and ever since, until the handler of c ended.            *)
(***************************************************************************)
Conns == 1..MaxConns

NoData == [user |-> <<>>, message |-> "", connection |-> FALSE]

InitChat ==
    [active_connections |-> <<>>,
     pc |-> [c \in Conns |-> "idle"],
     user |-> [c \in Conns |-> 0],
     it |-> [c \in Conns |-> 0],
     data |-> [c \in Conns |-> NoData],
     open |-> [c \in Conns |-> FALSE],
     sent |-> [c \in Conns |-> 0],
     log |-> [c \in Conns |-> <<>>],
     connects |-> 0,
     disconnects |-> 0,
     during |-> [c \in Conns |-> {}],
     finished |-> <<>>,
     leftDue |-> [c \in Conns |-> {}],
     present |-> [c \in Conns |-> {}]]

Range(seq) == {seq[i] : i \in 1..Len(seq)}

SocketManager_connect_twice(active_connections, c) ==
    Append(Append(active_connections, c), c)

\* list.append
SocketManager_connect(active_connections, c) == Append(active_connections, c)

SocketManager_disconnect_keeps(active_connections, c) == active_connections

\* list.remove: the first occurrence goes.
SocketManager_disconnect(active_connections, c) ==
    LET first == CHOOSE i \in 1..Len(active_connections) :
                    /\ active_connections[i] = c
                    /\ \A j \in 1..(i - 1) : active_connections[j] # c
    IN  [i \in 1..(Len(active_connections) - 1) |->
            IF i < first THEN active_connections[i]
            ELSE active_connections[i + 1]]

\* The handler of c ends by an exception it does not catch; the server
\* closes the transport.  No statement of the handler runs any more.
Crash(ch, c) ==
    [ch EXCEPT !.pc[c] = "crashed",
               !.open[c] = FALSE,
               !.leftDue[c] = IF ch.pc[c] = "left" THEN @
                              ELSE Range(ch.active_connections) \ {c}]

\* SocketManager.send resumed in the handler of c: the list iterator looks
\* at the list as it is now.  Past its end the loop is left and the handler
\* runs to its next await, or returns.  Otherwise send_json is called on
\* the next connection d; on a transport that is no longer open the call
\* either is lost silently or raises (`raises`), by the server in use.
SocketManager_send(ch, c, raises) ==
    LET i == ch.it[c] + 1
    IN  IF i > Len(ch.active_connections)
        THEN [ch EXCEPT !.pc[c] = IF @ = "left" THEN "done" ELSE "receive",
                        !.during[c] = {},
                        !.finished = <<[by |-> c, kind |-> ch.pc[c],
                                        data |-> ch.data[c],
                                        throughout |-> ch.during[c]]>>]
        ELSE LET d == ch.active_connections[i]
             IN  IF ~ch.open[d] /\ raises THEN Crash(ch, c)
                 ELSE [ch EXCEPT !.it[c] = i,
                                 !.log[d] = Append(@, [by |-> c,
                                                       data |-> ch.data[c]])]

\* A call socket_manager.send(data) in the handler of c, at `kind`, up to
\* its first await.
Broadcast(ch, c, kind, data, raises) ==
    SocketManager_send(
        [ch EXCEPT !.pc[c] = kind, !.it[c] = 0, !.data[c] = data,
                   !.during[c] = Range(ch.active_connections)],
        c, raises)

\* chat.py line 19 and line 32.
response(d, user_id, message) ==
    [user |-> d.users[user_id].username, message |-> message,
     connection |-> TRUE]

\* dependencies.get_token_in_query on the query parameter [prefix, jwt]:
\* str.replace takes 'Bearer ' out, and nothing else.  What is left of
\* another prefix is no JWT: it is written as a token no key verifies.
get_token_in_query(q) ==
    IF q.prefix \in {"Bearer ", ""} THEN q.jwt
    ELSE [q.jwt EXCEPT !.key = 0]

dependency_raises_never(res) == FALSE

\* Whether the dependency of the route ended in the HTTPException of
\* get_user: the handler is then not called.
dependency_raises(res) == res.status # 200

\* The handshake of connection c with `token` in the query:
\* Depends(get_current_user_by_query) resolves it, and the handler runs to
\* websocket.accept(); an HTTPException refuses the connection.
chat_handshake(c, token_in_query) ==
    LET res == get_user(get_token_in_query(token_in_query), db, secret, now)
        after == IF dependency_raises(res)
                 THEN [chat EXCEPT !.pc[c] = "refused"]
                 ELSE [chat EXCEPT !.pc[c] = "accept", !.open[c] = TRUE,
                                   !.user[c] = res.ret]
    IN  /\ chat.pc[c] = "idle"
        /\ \A b \in Conns : b < c => chat.pc[b] # "idle"
        /\ chat' = after
        /\ last' = [op |-> "chat", caller |-> 0, admin |-> FALSE, tid |-> c,
                    pre |-> <<>>, req |-> token_in_query,
                    status |-> res.status, detail |-> res.detail,
                    ret |-> res.ret,
                    changed |->
                        \/ after.active_connections # chat.active_connections
                        \/ after.log # chat.log]
        /\ UNCHANGED <<db, secret, now, token>>

\* websocket.accept() returns: SocketManager.connect appends, and the
\* handler broadcasts the "connected" event (lines 18-24).
connect(c, raises) ==
    /\ chat.pc[c] = "accept"
    /\ chat.user[c] \in Ids(db, "users")
    /\ chat' = Broadcast(
                  [chat EXCEPT !.active_connections =
                                   SocketManager_connect(@, c),
                               !.connects = @ + 1,
                               !.present[c] = Range(chat.active_connections)],
                  c, "hello",
                  response(db, chat.user[c], "connected to the chat"), raises)
    /\ UNCHANGED <<db, secret, now, token, last>>

\* A send_json of the handler of c returns and its loop goes on.
send(c, raises) ==
    /\ chat.pc[c] \in {"hello", "relay", "left"}
    /\ chat' = SocketManager_send(chat, c, raises)
    /\ UNCHANGED <<db, secret, now, token, last>>

\* The texts of the messages the clients send: one per connection and
\* number, so that a message is told from every other.
Texts ==
    <<<<"m11", "m12", "m13">>, <<"m21", "m22", "m23">>,
      <<"m31", "m32", "m33">>, <<"m41", "m42", "m43">>>>

\* receive_json returns the next frame of the client of c.  A text frame
\* that is JSON is broadcast as it is (line 29); on one that is not,
\* json.loads raises a JSONDecodeError, which the handler does not catch.
receive_json(c, is_json, raises) ==
    /\ chat.pc[c] = "receive"
    /\ chat.open[c]
    /\ chat.sent[c] < MaxMsgs
    /\ chat' =
          LET ch == [chat EXCEPT !.sent[c] = @ + 1]
          IN  IF is_json
              THEN Broadcast(ch, c, "relay",
                             [user |-> db.users[chat.user[c]].username,
                              message |-> Texts[c][ch.sent[c]],
                              connection |-> FALSE],
                             raises)
              ELSE Crash(ch, c)
    /\ UNCHANGED <<db, secret, now, token, last>>

\* The client of c closes its transport, or loses it.
client_close(c) ==
    /\ chat.pc[c] \in {"hello", "receive", "relay"}
    /\ chat.open[c]
    /\ chat' = [chat EXCEPT !.open[c] = FALSE]
    /\ UNCHANGED <<db, secret, now, token, last>>

\* receive_json raises WebSocketDisconnect: the handler removes its
\* registration and broadcasts the "left" event (lines 30-33).
WebSocketDisconnect(c, raises) ==
    /\ chat.pc[c] = "receive"
    /\ ~chat.open[c]
    /\ chat' =
          LET conns == SocketManager_disconnect(chat.active_connections, c)
              ch == [chat EXCEPT
                        !.active_connections = conns,
                        !.disconnects = @ + 1,
                        !.during = [x \in Conns |-> @[x] \ {c}],
                        !.present = [x \in Conns |->
                                        IF chat.pc[x] \in {"done", "crashed"}
                                        THEN @[x] ELSE @[x] \ {c}],
                        !.leftDue = [x \in Conns |->
                                        IF x = c THEN Range(conns)
                                        ELSE IF chat.pc[x] = "left"
                                        THEN @[x] \ {c} ELSE @[x]]]
          IN  Broadcast(ch, c, "left",
                        response(db, chat.user[c], "left the chat"), raises)
    /\ UNCHANGED <<db, secret, now, token, last>>


(***************************************************************************)
(* The credential and token service.                                       *)
(***************************************************************************)
vars == <<db, secret, now, token, chat, last>>

Init ==
    /\ db = InitDb
    /\ secret = 1
    /\ now = 0
    /\ token = <<>>
    /\ chat = InitChat
    /\ last = NoRequest

\* The registrations tried: an ordinary one, one whose username has the
\* shape of an e-mail address, and one whose e-mail is that username.
TokenUsers ==
    {[username |-> S_bob, email |-> S_bob_email, password |-> "pw", role_id |-> 2],
     [username |-> S_a_at_b, email |-> S_dash_email, password |-> "pw", role_id |-> 2],
     [username |-> S_bob, email |-> S_a_at_b, password |-> "pw", role_id |-> 2]}

\* The expires_delta values tried: None, timedelta(0), half a second and a
\* second ago, half a second from now.
TokenDeltas == {<<>>, <<0>>, <<0 - 1>>, <<0 - TicksPerSecond>>, <<1>>}

NextToken ==
    \/ \E user \in TokenUsers : create_user(user)
    \/ \E cu \in Ids(db, "users") : delete_user(cu, cu)
    \/ \E name \in Usernames \cup Emails, pw \in {"pw", "admin"} :
          login_for_access_token(name, pw)
    \/ \E sub \in Usernames, delta \in TokenDeltas : issue_token(sub, delta)
    \/ read_users_me
    \/ \E t \in Instants : Tick(t)

SpecToken == Init /\ [][NextToken]_vars

(***************************************************************************)
(* Claims about the credential and token service (under SpecToken).        *)
(***************************************************************************)
\* What resolving the held token gives in the current state.
Resolved == get_user(token[1].jwt, db, secret, now)

\* The held token was asked with a ttl > 0 and that ttl has not run out.
WithinTtl ==
    /\ token[1].delta # <<>>
    /\ token[1].delta[1] > 0
    /\ now <= token[1].iat + token[1].delta[1]

\* C1: a token issued with the username of a registered identity as its
\* subject and a ttl > 0 resolves, at every instant up to issue time + ttl,
\* to that identity's record: not to an error, not to another identity.
C1_TokenRoundTrip ==
    \A i \in Ids(db, "users") :
        (/\ token # <<>>
         /\ token[1].jwt.sub = <<db.users[i].username>>
         /\ WithinTtl)
        => (Resolved.status = 200 /\ Resolved.ret = i)

\* C2: a token issued with ttl = 0, or with an expiry already in the past,
\* fails resolution with 401 at the moment of issuance and ever after.
C2_ExpiredTokenFails ==
    (/\ token # <<>>
     /\ token[1].delta # <<>>
     /\ token[1].delta[1] <= 0)
    => Resolved.status = 401

(***************************************************************************)
(* crud.py: the generic update, roles, notifications, tags, questions,     *)
(* comments, articles.  A request schema is a record of options; the       *)
(* fields that are set (exclude_unset) are the ones written.               *)
(***************************************************************************)
\* The row after the fields that `schema_object` sets are written to it.
Written(row, schema_object) ==
    [f \in DOMAIN row |->
        IF f \in DOMAIN schema_object /\ schema_object[f] # <<>>
        THEN schema_object[f][1] ELSE row[f]]

\* crud.update_object
update_object(d, t, object_id, schema_object) ==
    IF object_id \notin Ids(d, t)
    THEN Raise(d, 404, "with this id does not exist")
    ELSE Ok([d EXCEPT ![t][object_id] = Written(@, schema_object)], object_id)

\* crud.create_role
crud_create_role(d, role) ==
    IF First(d, "roles", "title", role.title) # 0
    THEN Raise(d, 403, "Role with this title already exists.")
    ELSE Ok(Insert(d, "roles", [title |-> role.title]), d.nextid["roles"])

\* crud.update_role; role.title is an option.  An unset title is None and
\* no stored title equals it.
crud_update_role(d, role_id, role) ==
    IF /\ role.title # <<>>
       /\ First(d, "roles", "title", role.title[1]) \notin {0, role_id}
    THEN Raise(d, 403, "Role with this title already exists.")
    ELSE update_object(d, "roles", role_id, role)

\* crud.create_notification
crud_create_notification(d, notification) ==
    IF notification.user_id \notin Ids(d, "users")
    THEN Raise(d, 404, "with this id does not exist")
    ELSE IF notification.question_id \notin Ids(d, "questions")
    THEN Raise(d, 404, "with this id does not exist")
    ELSE Ok(Insert(d, "notifications",
                   [title |-> notification.title,
                    user_id |-> notification.user_id,
                    question_id |-> notification.question_id]),
            d.nextid["notifications"])

\* crud.create_tag
crud_create_tag(d, tag) ==
    IF First(d, "tags", "title", tag.title) # 0
    THEN Raise(d, 403, "Tag with this title already exist.")
    ELSE Ok(Insert(d, "tags", [title |-> tag.title]), d.nextid["tags"])

\* crud.update_tag
crud_update_tag(d, tag_id, tag) ==
    IF /\ tag.title # <<>>
       /\ First(d, "tags", "title", tag.title[1]) \notin {0, tag_id}
    THEN Raise(d, 403, "Tag with this title already exists.")
    ELSE update_object(d, "tags", tag_id, tag)

\* crud.create_article
crud_create_article(d, article) ==
    Ok(Insert(d, "articles",
              [title |-> article.title, content |-> article.content,
               likes |-> <<>>, dislikes |-> <<>>]),
       d.nextid["articles"])

\* str.lower and the test of crud.fill_tags on one character: alphanumeric
\* once '.', '-' and '_' are taken out.
LowerOf(ch) == IF ch = "A" THEN "a" ELSE ch

lower(s) == [i \in 1..Len(s) |-> LowerOf(s[i])]

tag_title_ok(tag) ==
    LET rest == SelectSeq(tag, LAMBDA ch : ch \notin {".", "-", "_"})
    IN  rest # <<>> /\ \A i \in 1..Len(rest) : rest[i] \in AlnumClass

\* crud.fill_tags on the question question_id of d, from the i-th tag on:
\* [err, db], the database with the tags of the list created where missing
\* and linked to the question; err is "wrong" when a title is wrong (HTTP
\* 400).  The session does not autoflush (db.py): a tag created earlier in
\* the list is not found by the query, so a title that is new and occurs
\* twice is inserted twice and the commit fails on the unique title; an
\* existing tag linked twice fails on the primary key of tag_question.  Both
\* give err "conflict".  d0 is the database the queries see.
RECURSIVE fill_tags(_, _, _, _, _)
fill_tags(d, d0, tags, question_id, i) ==
    IF i > Len(tags) THEN [err |-> "", db |-> d]
    ELSE LET tag == lower(tags[i])
             found == First(d0, "tags", "title", tag)
         IN  IF ~tag_title_ok(tag) THEN [err |-> "wrong", db |-> d]
             ELSE IF found # 0
             THEN IF found \in d.questions[question_id].tags
                  THEN [err |-> "conflict", db |-> d]
                  ELSE fill_tags(
                          [d EXCEPT !.questions[question_id].tags = @ \cup {found}],
                          d0, tags, question_id, i + 1)
             ELSE IF \E j \in 1..(i - 1) : lower(tags[j]) = tag
             THEN [err |-> "conflict", db |-> d]
             ELSE fill_tags(
                     [Insert(d, "tags", [title |-> tag])
                         EXCEPT !.questions[question_id].tags =
                                    @ \cup {d.nextid["tags"]}],
                     d0, tags, question_id, i + 1)

Session_close_commits(d, pending) == pending

\* dependencies.get_db: the finally clause closes the session (db.py:
\* autocommit=False), and what the request wrote and did not commit is
\* rolled back; d is the database the request found.
Session_close(d, pending) == d

\* What the handler gives once fill_tags (on d1, for a request that found
\* d) has run: nothing is committed when it raised.
AfterTags(d, d1, tags, question_id) ==
    LET filled == fill_tags(d1, d, tags, question_id, 1)
    IN  IF filled.err = "wrong"
        THEN Raise(Session_close(d, filled.db), 400, "Wrong tag title.")
        ELSE IF filled.err = "conflict" THEN Raise(d, 500, "IntegrityError")
        ELSE Ok(filled.db, question_id)

\* crud.create_question; question.tags is a list of titles (<<>>: None).
crud_create_question(d, question) ==
    IF question.author_id \notin Ids(d, "users")
    THEN Raise(d, 404, "with this id does not exist")
    ELSE AfterTags(d,
                   Insert(d, "questions",
                          [title |-> question.title, content |-> question.content,
                           views |-> 0, author_id |-> question.author_id,
                           tags |-> {}]),
                   question.tags, d.nextid["questions"])

\* crud.update_question; title, content and views are options, tags a list.
crud_update_question(d, question_id, question) ==
    IF question_id \notin Ids(d, "questions")
    THEN Raise(d, 404, "with this id does not exist")
    ELSE LET d1 == [d EXCEPT !.questions[question_id] =
                        Written(@, [title |-> question.title,
                                    content |-> question.content,
                                    views |-> question.views])]
         IN  IF question.tags # <<>>
             THEN AfterTags(d, [d1 EXCEPT !.questions[question_id].tags = {}],
                            question.tags, question_id)
             ELSE Ok(d1, question_id)

\* crud.create_comment: the comment is committed, and then the author of
\* the question is notified unless it is the commenter.
crud_create_comment(d, comment) ==
    IF comment.author_id \notin Ids(d, "users")
    THEN Raise(d, 404, "with this id does not exist")
    ELSE IF comment.question_id \notin Ids(d, "questions")
    THEN Raise(d, 404, "with this id does not exist")
    ELSE LET d1 == Insert(d, "comments",
                          [content |-> comment.content, is_answer |-> FALSE,
                           author_id |-> comment.author_id,
                           question_id |-> comment.question_id])
             question_author == d.questions[comment.question_id].author_id
         IN  IF comment.author_id # question_author
             THEN Ok(crud_create_notification(d1,
                        [title |-> "commented your question",
                         user_id |-> question_author,
                         question_id |-> comment.question_id]).db,
                     d.nextid["comments"])
             ELSE Ok(d1, d.nextid["comments"])

(***************************************************************************)
(* routers/forum/questions.py and routers/forum/comments.py.               *)
(***************************************************************************)
is_admin(d, current_user) == role_title(d, current_user) = "Admin"

\* POST /questions/: the author is the one the body names, the caller when
\* it names none.
create_question(current_user, question) ==
    /\ current_user \in Ids(db, "users")
    /\ db.nextid["questions"] <= MaxQuestions
    /\ Respond("create_question", current_user, "questions", 0, question,
               crud_create_question(db,
                   [question EXCEPT !.author_id =
                        IF @ = <<>> THEN current_user ELSE @[1]]))
    /\ UNCHANGED <<secret, now, token, chat>>

\* PATCH /questions/{question_id}/: crud.get_object raises the 404 inside
\* the condition, for a caller that is not an admin.
update_question(current_user, question_id, question) ==
    /\ current_user \in Ids(db, "users")
    /\ Respond("update_question", current_user, "questions", question_id,
               question,
               IF ~is_admin(db, current_user)
                  /\ question_id \notin Ids(db, "questions")
               THEN Raise(db, 404, "with this id does not exist")
               ELSE IF ~is_admin(db, current_user)
                       /\ current_user # db.questions[question_id].author_id
               THEN Raise(db, 400, "You did not give the views parameter.")
               ELSE crud_update_question(db, question_id, question))
    /\ UNCHANGED <<secret, now, token, chat>>

\* PATCH /questions/{question_id}/views/: no current_user.
update_question_views(question_id, views) ==
    /\ Respond("update_question_views", 0, "questions", question_id,
               [views |-> <<views>>],
               crud_update_question(db, question_id,
                   [title |-> <<>>, content |-> <<>>, views |-> <<views>>,
                    tags |-> <<>>]))
    /\ UNCHANGED <<secret, now, token, chat>>

\* DELETE /questions/{question_id}/
delete_question(current_user, question_id) ==
    /\ current_user \in Ids(db, "users")
    /\ Respond("delete_question", current_user, "questions", question_id, <<>>,
               IF ~is_admin(db, current_user)
                  /\ question_id \notin Ids(db, "questions")
               THEN Raise(db, 404, "with this id does not exist")
               ELSE IF ~is_admin(db, current_user)
                       /\ current_user # db.questions[question_id].author_id
               THEN Raise(db, 403, "You are not the owner of the question.")
               ELSE delete_object(db, "questions", question_id))
    /\ UNCHANGED <<secret, now, token, chat>>

\* POST /comments/: the author is the caller.
create_comment(current_user, comment) ==
    /\ current_user \in Ids(db, "users")
    /\ db.nextid["comments"] <= MaxComments
    /\ Respond("create_comment", current_user, "comments", 0, comment,
               crud_create_comment(db,
                   [comment EXCEPT !.author_id = current_user]))
    /\ UNCHANGED <<secret, now, token, chat>>

\* What the handler of PATCH /comments/{comment_id}/ comes to.  comment is a
\* schemas.CommentUpdate, content and is_answer options.  When neither
\* branch is taken the function ends without a return statement: it returns
\* None, written as status 0.
update_comment_result(d, current_user, comment_id, comment) ==
    IF is_admin(d, current_user)
    THEN update_object(d, "comments", comment_id, comment)
    ELSE IF comment_id \notin Ids(d, "comments")
    THEN Raise(d, 404, "with this id does not exist")
    ELSE LET comment_db == d.comments[comment_id]
         IN  IF /\ comment.content # <<>>
                /\ comment.content[1] # ""
                /\ current_user = comment_db.author_id
             THEN update_object(d, "comments", comment_id,
                                [content |-> comment.content, is_answer |-> <<>>])
             ELSE IF /\ comment.is_answer # <<>>
                     /\ current_user = d.questions[comment_db.question_id].author_id
             THEN update_object(d, "comments", comment_id,
                                [content |-> <<>>, is_answer |-> comment.is_answer])
             ELSE Result(d, 0, "None", 0)

\* PATCH /comments/{comment_id}/
update_comment(current_user, comment_id, comment) ==
    /\ current_user \in Ids(db, "users")
    /\ Respond("update_comment", current_user, "comments", comment_id, comment,
               update_comment_result(db, current_user, comment_id, comment))
    /\ UNCHANGED <<secret, now, token, chat>>

\* DELETE /comments/{comment_id}/ (the function comments.delete_question)
delete_comment(current_user, comment_id) ==
    /\ current_user \in Ids(db, "users")
    /\ Respond("delete_comment", current_user, "comments", comment_id, <<>>,
               IF is_admin(db, current_user)
               THEN delete_object(db, "comments", comment_id)
               ELSE IF comment_id \notin Ids(db, "comments")
               THEN Raise(db, 404, "with this id does not exist")
               ELSE IF current_user = db.comments[comment_id].author_id
               THEN delete_object(db, "comments", comment_id)
               ELSE Raise(db, 403, "You are not author of comment."))
    /\ UNCHANGED <<secret, now, token, chat>>

(***************************************************************************)
(* routers/users/notifications.py.                                         *)
(***************************************************************************)
\* GET /notifications/
get_notifications(current_user) ==
    /\ current_user \in Ids(db, "users")
    /\ Respond("get_notifications", current_user, "notifications", 0, <<>>,
               IF raise_403_if_not_admin(db, current_user)
               THEN Raise(db, 403, "You are not an admin.")
               ELSE Ok(db, 0))
    /\ UNCHANGED <<secret, now, token, chat>>

\* POST /notifications/
create_notification(current_user, notification) ==
    /\ current_user \in Ids(db, "users")
    /\ AdminRows(db) < MaxAdminRows
    /\ Respond("create_notification", current_user, "notifications", 0,
               notification,
               IF raise_403_if_not_admin(db, current_user)
               THEN Raise(db, 403, "You are not an admin.")
               ELSE crud_create_notification(db, notification))
    /\ UNCHANGED <<secret, now, token, chat>>

\* DELETE /notifications/{notification_id}/: crud.get_object comes first.
delete_notification(current_user, notification_id) ==
    /\ current_user \in Ids(db, "users")
    /\ Respond("delete_notification", current_user, "notifications",
               notification_id, <<>>,
               IF notification_id \notin Ids(db, "notifications")
               THEN Raise(db, 404, "with this id does not exist")
               ELSE IF /\ db.notifications[notification_id].user_id # current_user
                       /\ ~is_admin(db, current_user)
               THEN Raise(db, 403, "You are not that user.")
               ELSE delete_object(db, "notifications", notification_id))
    /\ UNCHANGED <<secret, now, token, chat>>

\* PATCH /notifications/{notification_id}/
update_notification(current_user, notification_id, notification) ==
    /\ current_user \in Ids(db, "users")
    /\ Respond("update_notification", current_user, "notifications",
               notification_id, notification,
               IF raise_403_if_not_admin(db, current_user)
               THEN Raise(db, 403, "You are not an admin.")
               ELSE update_object(db, "notifications", notification_id,
                                  notification))
    /\ UNCHANGED <<secret, now, token, chat>>

(***************************************************************************)
(* routers/users/roles.py.  A role_key is [id, title]: the integer of the  *)
(* path, or (id 0) its string.                                             *)
(***************************************************************************)
isalpha(s) == s \in {"Admin", "Mod", "User"}

\* POST /roles/
create_role(current_user, role) ==
    /\ current_user \in Ids(db, "users")
    /\ AdminRows(db) < MaxAdminRows
    /\ Respond("create_role", current_user, "roles", 0, role,
               IF raise_403_if_not_admin(db, current_user)
               THEN Raise(db, 403, "You are not an admin.")
               ELSE crud_create_role(db, role))
    /\ UNCHANGED <<secret, now, token, chat>>

\* GET /roles/
get_roles(current_user) ==
    /\ current_user \in Ids(db, "users")
    /\ Respond("get_roles", current_user, "roles", 0, <<>>,
               IF raise_403_if_not_admin(db, current_user)
               THEN Raise(db, 403, "You are not an admin.")
               ELSE Ok(db, 0))
    /\ UNCHANGED <<secret, now, token, chat>>

\* The role a key names: crud.get_object, or crud.get_object_by_expression
\* on the title; 0 when there is none (the 404).
role_of_key(d, role_key) ==
    IF role_key.id # 0
    THEN IF role_key.id \in Ids(d, "roles") THEN role_key.id ELSE 0
    ELSE First(d, "roles", "title", role_key.title)

unresolved_role_key(role_key) == role_key.id = 0 /\ ~isalpha(role_key.title)

\* GET /roles/{role_key}/
get_role(current_user, role_key) ==
    /\ current_user \in Ids(db, "users")
    /\ Respond("get_role", current_user, "roles", role_of_key(db, role_key),
               role_key,
               IF raise_403_if_not_admin(db, current_user)
               THEN Raise(db, 403, "You are not an admin.")
               ELSE IF unresolved_role_key(role_key)
               THEN Raise(db, 400, "Unresolved role_key.")
               ELSE IF role_of_key(db, role_key) = 0
               THEN Raise(db, 404, "with this id does not exist")
               ELSE Ok(db, role_of_key(db, role_key)))
    /\ UNCHANGED <<secret, now, token, chat>>

\* PATCH /roles/{role_key}/: crud.update_role, or crud.update_role_by_title
\* which looks the role up first.
update_role(current_user, role_key, role) ==
    /\ current_user \in Ids(db, "users")
    /\ Respond("update_role", current_user, "roles", role_of_key(db, role_key),
               role,
               IF raise_403_if_not_admin(db, current_user)
               THEN Raise(db, 403, "You are not an admin.")
               ELSE IF unresolved_role_key(role_key)
               THEN Raise(db, 400, "Unresolved role_key.")
               ELSE IF role_key.id = 0 /\ role_of_key(db, role_key) = 0
               THEN Raise(db, 404, "with this id does not exist")
               ELSE crud_update_role(db,
                        IF role_key.id # 0 THEN role_key.id
                        ELSE role_of_key(db, role_key),
                        role))
    /\ UNCHANGED <<secret, now, token, chat>>

\* DELETE /roles/{role_key}/: crud.delete_object, or
\* crud.delete_role_by_title.
delete_role(current_user, role_key) ==
    /\ current_user \in Ids(db, "users")
    /\ Respond("delete_role", current_user, "roles", role_of_key(db, role_key),
               <<>>,
               IF raise_403_if_not_admin(db, current_user)
               THEN Raise(db, 403, "You are not an admin.")
               ELSE IF unresolved_role_key(role_key)
               THEN Raise(db, 400, "Unresolved role_key.")
               ELSE IF role_of_key(db, role_key) = 0
               THEN Raise(db, 404, "with this id does not exist")
               ELSE delete_object(db, "roles", role_of_key(db, role_key)))
    /\ UNCHANGED <<secret, now, token, chat>>

(***************************************************************************)
(* routers/forum/tags.py and routers/news/articles.py.                     *)
(***************************************************************************)
\* POST /tags/
create_tag(current_user, tag) ==
    /\ current_user \in Ids(db, "users")
    /\ AdminRows(db) < MaxAdminRows
    /\ Respond("create_tag", current_user, "tags", 0, tag,
               IF raise_403_if_not_admin(db, current_user)
               THEN Raise(db, 403, "You are not an admin.")
               ELSE crud_create_tag(db, tag))
    /\ UNCHANGED <<secret, now, token, chat>>

\* PATCH /tags/{tag_id}/
update_tag(current_user, tag_id, tag) ==
    /\ current_user \in Ids(db, "users")
    /\ Respond("update_tag", current_user, "tags", tag_id, tag,
               IF raise_403_if_not_admin(db, current_user)
               THEN Raise(db, 403, "You are not an admin.")
               ELSE crud_update_tag(db, tag_id, tag))
    /\ UNCHANGED <<secret, now, token, chat>>

\* DELETE /tags/{tag_id}/
delete_tag(current_user, tag_id) ==
    /\ current_user \in Ids(db, "users")
    /\ Respond("delete_tag", current_user, "tags", tag_id, <<>>,
               IF raise_403_if_not_admin(db, current_user)
               THEN Raise(db, 403, "You are not an admin.")
               ELSE delete_object(db, "tags", tag_id))
    /\ UNCHANGED <<secret, now, token, chat>>

\* POST /articles/
create_article(current_user, article) ==
    /\ current_user \in Ids(db, "users")
    /\ AdminRows(db) < MaxAdminRows
    /\ Respond("create_article", current_user, "articles", 0, article,
               IF raise_403_if_not_admin(db, current_user)
               THEN Raise(db, 403, "You are not an admin.")
               ELSE crud_create_article(db, article))
    /\ UNCHANGED <<secret, now, token, chat>>

\* PATCH /articles/{article_id}/: the test is in the handler.
update_article(current_user, article_id, article) ==
    /\ current_user \in Ids(db, "users")
    /\ Respond("update_article", current_user, "articles", article_id, article,
               IF is_admin(db, current_user)
               THEN update_object(db, "articles", article_id, article)
               ELSE Raise(db, 403, "You have no access no edit articles."))
    /\ UNCHANGED <<secret, now, token, chat>>

\* DELETE /articles/{article_id}/
delete_article(current_user, article_id) ==
    /\ current_user \in Ids(db, "users")
    /\ Respond("delete_article", current_user, "articles", article_id, <<>>,
               IF raise_403_if_not_admin(db, current_user)
               THEN Raise(db, 403, "You are not an admin.")
               ELSE delete_object(db, "articles", article_id))
    /\ UNCHANGED <<secret, now, token, chat>>

(***************************************************************************)
(* The forum: users, their questions, comments and notifications.          *)
(***************************************************************************)
\* The ids a request names for table t: every id given so far, and the next
\* one, which no row has.
TargetIds(t) == Ids(db, t)

ForumUsers ==
    {[username |-> S_bob, email |-> S_bob_email, password |-> "pw", role_id |-> 2],
     [username |-> S_a_at_b, email |-> S_dash_email, password |-> "pw", role_id |-> 2]}

UserUpdates == {[email |-> <<S_a_at_b>>, password |-> <<>>]}

QuestionCreates ==
    {[title |-> "t", content |-> "c", author_id |-> <<>>, tags |-> <<>>]}

QuestionUpdates ==
    {[title |-> <<"t2">>, content |-> <<>>, views |-> <<>>, tags |-> <<>>]}

CommentUpdates ==
    [content : {<<>>, <<"">>, <<"c2">>}, is_answer : {<<>>, <<TRUE>>}]

NextForum ==
    \/ \E user \in ForumUsers : create_user(user)
    \/ \E cu \in Ids(db, "users"), id \in TargetIds("users") :
          delete_user(cu, id)
    \/ \E cu \in Ids(db, "users"), id \in TargetIds("users"),
          user \in UserUpdates : update_user(cu, id, user)
    \/ \E cu \in Ids(db, "users"), question \in QuestionCreates :
          create_question(cu, question)
    \/ \E cu \in Ids(db, "users"), id \in TargetIds("questions"),
          question \in QuestionUpdates : update_question(cu, id, question)
    \/ \E cu \in Ids(db, "users"), id \in TargetIds("questions") :
          delete_question(cu, id)
    \/ \E cu \in Ids(db, "users"), id \in Ids(db, "questions") :
          create_comment(cu, [content |-> "c", author_id |-> <<>>,
                              question_id |-> id])
    \/ \E cu \in Ids(db, "users"), id \in TargetIds("comments"),
          comment \in CommentUpdates : update_comment(cu, id, comment)
    \/ \E cu \in Ids(db, "users"), id \in TargetIds("comments") :
          delete_comment(cu, id)
    \/ \E cu \in Ids(db, "users"), id \in TargetIds("notifications") :
          delete_notification(cu, id)

SpecForum == Init /\ [][NextForum]_vars

(***************************************************************************)
(* Claims about who may do what (under SpecForum).  A request is Denied    *)
(* when it ended in one of the refusals the handlers and decorators raise  *)
(* for a caller that may not act: HTTP 403 with the detail of the refusal, *)
(* or the 400 of update_question.                                          *)
(***************************************************************************)
Denied ==
    \/ /\ last.status = 403
       /\ last.detail \in {"You are not an admin.", "You are not that user.",
                           "You are not the owner of the question.",
                           "You are not author of comment.",
                           "You have no access no edit articles."}
    \/ /\ last.status = 400
       /\ last.detail = "You did not give the views parameter."

\* The request was refused for what it asks, not for who asks: a target or
\* a reference that does not exist, a title or an e-mail already taken, a
\* wrong tag or role key.
Rejected ==
    \/ last.status \in {404, 500}
    \/ last.status = 400 /\ ~Denied
    \/ last.status = 403 /\ ~Denied

OwnerOps ==
    {"update_question", "delete_question", "delete_comment",
     "delete_notification", "update_user", "delete_user"}

TableOf(op) ==
    CASE op \in {"update_question", "delete_question"} -> "questions"
      [] op \in {"update_comment", "delete_comment"} -> "comments"
      [] op \in {"delete_notification"} -> "notifications"
      [] OTHER -> "users"

\* The owner of the target of the last request, as the request found it.
OwnerOfTarget ==
    CASE TableOf(last.op) \in {"questions", "comments"} -> last.pre.author_id
      [] TableOf(last.op) = "notifications" -> last.pre.user_id
      [] OTHER -> last.tid

TargetNow == Row(db, TableOf(last.op), last.tid)

\* The effect of the last request of OwnerOps is in the database: the
\* target is gone, or holds the fields the request set (an e-mail that
\* another user has is refused).
OwnerEffect ==
    CASE last.op \in {"delete_question", "delete_comment",
                      "delete_notification", "delete_user"} ->
            last.status = 204 /\ TargetNow = <<>>
      [] last.op = "update_question" ->
            /\ last.status = 200
            /\ \A f \in {"title", "content", "views"} :
                  TargetNow[f] = IF last.req[f] # <<>> THEN last.req[f][1]
                                 ELSE last.pre[f]
      [] OTHER ->
            \/ /\ last.status = 200
               /\ TargetNow.email = last.req.email[1]
            \/ /\ last.status = 403
               /\ last.detail = "User with this email already exists."
               /\ TargetNow = last.pre

\* C4: question edit and delete, comment delete, notification delete, user
\* edit and delete on an existing target take effect if and only if the
\* caller is Admin or is the owner of the target (the author of the
\* question or comment, the user the notification is addressed to, the user
\* itself); for every other caller the request is denied and the target is
\* left as it was.
C4_AdminOrOwner ==
    (last.op \in OwnerOps /\ last.pre # <<>>) =>
        IF last.admin \/ last.caller = OwnerOfTarget
        THEN ~Denied /\ OwnerEffect
        ELSE Denied /\ TargetNow = last.pre /\ ~last.changed

\* A caller that is not an admin has edited its own question.
C4_OwnerActed ==
    /\ last.op = "update_question"
    /\ ~last.admin
    /\ last.caller = last.pre.author_id
    /\ last.status = 200
    /\ last.changed

\* Whether the caller of the last update_comment is permitted to change
\* field f: an admin both fields, the author of the comment its content, the
\* author of the parent question its is_answer.
MayChange(f) ==
    \/ last.admin
    \/ f = "content" /\ last.caller = last.pre.author_id
    \/ f = "is_answer"
         /\ last.caller = db.questions[last.pre.question_id].author_id

\* C5: after an edit of an existing comment, each of the fields content and
\* is_answer holds the value of the request if the request carries the
\* field and the caller is permitted to change it, and the value it had
\* before otherwise.
C5_CommentEditTable ==
    (last.op = "update_comment" /\ last.pre # <<>>) =>
        \A f \in {"content", "is_answer"} :
            db.comments[last.tid][f] =
                IF last.req[f] # <<>> /\ MayChange(f) THEN last.req[f][1]
                ELSE last.pre[f]

ProtectedOps ==
    OwnerOps \cup {"update_comment", "create_question", "create_comment"}

\* C6: every request to a protected operation ends in exactly one of: its
\* effect applied (a 200 or a 204), an explicit denial that changes
\* nothing, or a refusal of what it asks; no request ends in none of them.
C6_TotalDefaultDeny ==
    last.op \in ProtectedOps =>
        \/ last.status \in {200, 204} /\ ~Denied
        \/ Denied /\ ~last.changed
        \/ Rejected /\ ~last.changed

(***************************************************************************)
(* The administration: roles, tags, articles, notifications.               *)
(***************************************************************************)
AdminUsers ==
    {[username |-> S_bob, email |-> S_bob_email, password |-> "pw", role_id |-> 2]}

RoleCreates == {[title |-> "Mod"]}

RoleUpdates == {[title |-> <<"Admin">>], [title |-> <<"Mod">>]}

\* The keys of the role paths: the ids given so far and the next one, a
\* title, and a string that is not alphabetic.
RoleKeys ==
    {[id |-> i, title |-> ""] : i \in 1..db.nextid["roles"]}
        \cup {[id |-> 0, title |-> t] : t \in {"Admin", "r2"}}

TagCreates == {[title |-> <<"a">>]}

TagUpdates == {[title |-> <<<<"b">>>>]}

ArticleCreates == {[title |-> "t", content |-> "c"]}

ArticleUpdates == {[title |-> <<"t2">>, content |-> <<>>]}

NotificationUpdates == {[title |-> <<"n2">>]}

NextAdmin ==
    \/ \E user \in AdminUsers : create_user(user)
    \/ \E cu \in Ids(db, "users"), question \in QuestionCreates :
          create_question(cu, question)
    \/ \E cu \in Ids(db, "users"), role \in RoleCreates : create_role(cu, role)
    \/ \E cu \in Ids(db, "users") : get_roles(cu)
    \/ \E cu \in Ids(db, "users"), key \in RoleKeys : get_role(cu, key)
    \/ \E cu \in Ids(db, "users"), key \in RoleKeys, role \in RoleUpdates :
          update_role(cu, key, role)
    \/ \E cu \in Ids(db, "users"), key \in RoleKeys : delete_role(cu, key)
    \/ \E cu \in Ids(db, "users"), tag \in TagCreates : create_tag(cu, tag)
    \/ \E cu \in Ids(db, "users"), id \in 1..db.nextid["tags"],
          tag \in TagUpdates : update_tag(cu, id, tag)
    \/ \E cu \in Ids(db, "users"), id \in 1..db.nextid["tags"] :
          delete_tag(cu, id)
    \/ \E cu \in Ids(db, "users"), article \in ArticleCreates :
          create_article(cu, article)
    \/ \E cu \in Ids(db, "users"), id \in 1..db.nextid["articles"],
          article \in ArticleUpdates : update_article(cu, id, article)
    \/ \E cu \in Ids(db, "users"), id \in 1..db.nextid["articles"] :
          delete_article(cu, id)
    \/ \E cu \in Ids(db, "users") : get_notifications(cu)
    \/ \E cu \in Ids(db, "users"), user_id \in Ids(db, "users"),
          question_id \in Ids(db, "questions") :
          create_notification(cu, [title |-> "n", user_id |-> user_id,
                                   question_id |-> question_id])
    \/ \E cu \in Ids(db, "users"), id \in 1..db.nextid["notifications"],
          notification \in NotificationUpdates :
          update_notification(cu, id, notification)

SpecAdmin == Init /\ [][NextAdmin]_vars

(***************************************************************************)
(* Claims about the administration (under SpecAdmin).                      *)
(***************************************************************************)
AdminReads == {"get_roles", "get_role", "get_notifications"}

AdminCreates ==
    {"create_role", "create_tag", "create_article", "create_notification"}

AdminUpdates ==
    {"update_role", "update_tag", "update_article", "update_notification"}

AdminDeletes == {"delete_role", "delete_tag", "delete_article"}

AdminOps == AdminReads \cup AdminCreates \cup AdminUpdates \cup AdminDeletes

AdminTableOf(op) ==
    CASE op \in {"get_roles", "get_role", "create_role", "update_role",
                 "delete_role"} -> "roles"
      [] op \in {"create_tag", "update_tag", "delete_tag"} -> "tags"
      [] op \in {"create_article", "update_article", "delete_article"} ->
            "articles"
      [] OTHER -> "notifications"

\* The last request, of AdminOps, took effect: the row it creates is
\* there with the fields of the request, the row it updates holds the
\* fields the request set, the row it deletes is gone, the read is
\* answered; or the request was refused for what it asks.
AdminEffect ==
    LET t == AdminTableOf(last.op)
    IN  CASE last.op \in {"get_roles", "get_notifications"} -> last.status = 200
          [] last.op \in AdminCreates ->
                \/ /\ last.status = 200
                   /\ last.ret \in Ids(db, t)
                   /\ \A f \in DOMAIN last.req : db[t][last.ret][f] = last.req[f]
                \/ Rejected /\ ~last.changed
          [] last.pre = <<>> -> Rejected /\ ~last.changed
          [] last.op = "get_role" -> last.status = 200 /\ last.ret = last.tid
          [] last.op \in AdminUpdates ->
                \/ /\ last.status = 200
                   /\ Row(db, t, last.tid) = Written(last.pre, last.req)
                \/ Rejected /\ ~last.changed
          [] OTHER -> last.status = 204 /\ Row(db, t, last.tid) = <<>>

\* C3: a role-management, tag moderation, article authoring or notification
\* administration request takes effect if and only if the role of the
\* caller has the title "Admin"; for any other caller it is denied and the
\* database is unchanged.
C3_AdminOrNothing ==
    last.op \in AdminOps =>
        IF last.admin THEN ~Denied /\ AdminEffect
        ELSE Denied /\ ~last.changed

\* An admin's request has changed the database, and the request of a
\* caller whose role is not "Admin" has been denied: the state after the
\* denial, the rows of the administration still there.
C3_NotAdminDenied ==
    /\ last.op \in AdminUpdates \cup AdminDeletes
    /\ last.pre # <<>>
    /\ ~last.admin
    /\ Denied
    /\ AdminRows(db) > 0

(***************************************************************************)
(* The chat.  The tokens the clients open connections with: one of the     *)
(* seeded user, and one signed with another key.                           *)
(***************************************************************************)
ChatTokens ==
    {create_access_token([sub |-> <<S_admin>>], <<>>, 0, key) :
        key \in {secret, secret + 1}}
      \cup {create_access_token([sub |-> <<S_admin>>], <<0 - TicksPerSecond>>,
                                0, secret),
            create_access_token([sub |-> <<S_bob>>], <<>>, 0, secret)}

\* The query parameters: each token after 'Bearer ', and the good one bare
\* and after another word.
ChatQueries ==
    {[prefix |-> "Bearer ", jwt |-> jwt] : jwt \in ChatTokens}
      \cup {[prefix |-> p,
             jwt |-> create_access_token([sub |-> <<S_admin>>], <<>>, 0, secret)] :
               p \in {"", "Token "}}

NextChat ==
    \/ \E c \in Conns, token_in_query \in ChatQueries :
          chat_handshake(c, token_in_query)
    \/ \E c \in Conns, raises \in BOOLEAN : connect(c, raises)
    \/ \E c \in Conns, raises \in BOOLEAN : send(c, raises)
    \/ \E c \in Conns, is_json \in BOOLEAN, raises \in BOOLEAN :
          receive_json(c, is_json, raises)
    \/ \E c \in Conns : client_close(c)
    \/ \E c \in Conns, raises \in BOOLEAN : WebSocketDisconnect(c, raises)

SpecChat == Init /\ [][NextChat]_vars

(***************************************************************************)
(* Claims about the chat (under SpecChat).                                 *)
(***************************************************************************)
\* How many times the broadcast of `data` by the handler `by` was put on d.
Deliveries(d, by, data) ==
    Cardinality({i \in 1..Len(chat.log[d]) :
                    chat.log[d][i] = [by |-> by, data |-> data]})

\* C7: when the broadcast of a message received on a connection has run to
\* its end, every connection that was registered from its beginning to its
\* end, the sender included, has been sent the message exactly once and
\* unmodified.
C7_BroadcastFanOut ==
    \A i \in 1..Len(chat.finished) :
        chat.finished[i].kind = "relay" =>
            \A d \in chat.finished[i].throughout :
                Deliveries(d, chat.finished[i].by, chat.finished[i].data) = 1

\* C8: after N connects and M disconnects the registry holds exactly N - M
\* registrations, each of them once.
C8_RegistrySize ==
    /\ Len(chat.active_connections) = chat.connects - chat.disconnects
    /\ \A i, j \in 1..Len(chat.active_connections) :
          chat.active_connections[i] = chat.active_connections[j] => i = j

\* Two connects and one disconnect: one registration is left.
C8_TwoConnectsOneDisconnect ==
    /\ chat.connects = 2
    /\ chat.disconnects = 1
    /\ Len(chat.active_connections) = 1

\* C9: a connection is registered exactly while it is open: from the end of
\* its accept until its handler has seen it close; once its handler has
\* ended, for any reason, it is registered no more.
C9_RegisteredWhileOpen ==
    \A c \in Conns :
        c \in Range(chat.active_connections)
            <=> chat.pc[c] \in {"hello", "receive", "relay"}

\* C10: once the handler of a closed connection c has ended, every
\* connection that stayed registered from the close of c on has been sent
\* the "left" event of the user of c, and c itself has not.
C10_LeftEventBroadcast ==
    \A c \in Conns :
        chat.pc[c] \in {"done", "crashed"} =>
            LET left == response(db, chat.user[c], "left the chat")
            IN  /\ \A d \in chat.leftDue[c] : Deliveries(d, c, left) >= 1
                /\ Deliveries(c, c, left) = 0

\* C11: when the broadcast of the "connected" event of a newly admitted
\* connection has run to its end, every connection that was registered when
\* it began and has stayed registered, the new one included, has been sent
\* that event.
C11_ConnectedEvent ==
    \A i \in 1..Len(chat.finished) :
        chat.finished[i].kind = "hello" =>
            /\ chat.finished[i].data =
                  response(db, chat.user[chat.finished[i].by],
                           "connected to the chat")
            /\ \A d \in chat.finished[i].throughout :
                  Deliveries(d, chat.finished[i].by, chat.finished[i].data) >= 1


\* C12: a connection whose token did not resolve to a user is never accepted:
\* its handshake changes neither the registry nor what any connection has
\* been sent, and from then on it is not open, not registered, has received
\* nothing, and no event was ever broadcast on its behalf.
C12_FailedResolutionRefused ==
    /\ (last.op = "chat" /\ last.status # 200) =>
          /\ chat.pc[last.tid] = "refused"
          /\ ~last.changed
    /\ \A c \in Conns :
          chat.pc[c] = "refused" =>
              /\ ~chat.open[c]
              /\ c \notin Range(chat.active_connections)
              /\ chat.log[c] = <<>>
              /\ chat.data[c] = NoData
              /\ \A d \in Conns : \A i \in 1..Len(chat.log[d]) :
                    chat.log[d][i].by # c

\* A handshake with a token of an unknown user was refused while another
\* connection is registered.
C12_RefusedBesideRegistered ==
    /\ last.op = "chat"
    /\ last.status = 401
    /\ last.req.jwt.sub = <<S_bob>>
    /\ chat.pc[last.tid] = "refused"
    /\ Len(chat.active_connections) = 1


\* The handler of d is inside a broadcast, after a delivery step and before
\* another one that the list as it is now still owes.
InProgress(d) ==
    /\ chat.pc[d] \in {"hello", "relay", "left"}
    /\ chat.it[d] >= 1
    /\ chat.it[d] < Len(chat.active_connections)

\* C13: no step changes the list of registered connections while the
\* broadcast of some handler is between its first and its last delivery
\* step: connect and disconnect are serialized against the iteration.
C13_MutationSerialized ==
    [][chat'.active_connections # chat.active_connections =>
          \A d \in Conns : ~InProgress(d)]_vars


(***************************************************************************)
(* Token resolution on a protected route, with any token a client may      *)
(* present.                                                                *)
(***************************************************************************)
\* GET /users/me/ with `user_token` as the bearer token:
\* Depends(get_current_user).
get_current_user(user_token) ==
    /\ Respond("get_current_user", 0, "users", 0, user_token,
               get_user(user_token, db, secret, now))
    /\ UNCHANGED <<secret, now, token, chat>>

\* The tokens presented: with the subject of the seeded user, of a user
\* that is registered or not, and with none; with the default lifetime, the
\* one of a login and one that is over at issue; signed with the key of the
\* process and with another one.
ResolveTokens ==
    {create_access_token([sub |-> sub], delta, 0, key) :
        sub \in {<<>>, <<S_admin>>, <<S_bob>>},
        delta \in {<<>>, <<Minutes(ACCESS_TOKEN_EXPIRE_MINUTES)>>,
                   <<0 - TicksPerSecond>>},
        key \in {secret, secret + 1}}

ResolveUsers ==
    {[username |-> S_bob, email |-> S_bob_email, password |-> "pw",
      role_id |-> 2]}

NextResolve ==
    \/ \E user \in ResolveUsers : create_user(user)
    \/ \E cu \in Ids(db, "users") : delete_user(cu, cu)
    \/ \E user_token \in ResolveTokens : get_current_user(user_token)
    \/ \E t \in Instants : Tick(t)

SpecResolve == Init /\ [][NextResolve]_vars

\* The checks of a resolution that the token `r` fails now.
BadSignature(r) == r.key # secret
Expired(r) == r.exp < utc_seconds(now)
NoSubject(r) == r.sub = <<>>
UnknownSubject(r) ==
    /\ r.sub # <<>>
    /\ \A i \in Ids(db, "users") :
          /\ db.users[i].username # r.sub[1]
          /\ db.users[i].email # r.sub[1]

\* C14: a resolution that fails, for a bad signature, an expired token, a
\* token without subject or a subject no identity has, fails with 401 and
\* the detail "Could not validate credentials" and with nothing else that
\* tells the checks apart; a token failing none of them resolves.
C14_UniformResolutionFailure ==
    [][(last' # last /\ last'.op = "get_current_user") =>
          IF \/ BadSignature(last'.req) \/ Expired(last'.req)
             \/ NoSubject(last'.req) \/ UnknownSubject(last'.req)
          THEN /\ last'.status = 401
               /\ last'.detail = "Could not validate credentials"
               /\ last'.ret = 0
               /\ db' = db
          ELSE last'.status = 200]_vars

\* A well signed, unexpired token with the name of a user that is not
\* registered was presented and refused.
C14_UnknownSubjectOnly ==
    /\ last.op = "get_current_user"
    /\ UnknownSubject(last.req)
    /\ ~BadSignature(last.req)
    /\ ~Expired(last.req)
    /\ ~NoSubject(last.req)
    /\ last.status = 401

\* Some registered identity has `name` as its username or as its email and
\* a stored hash that verifies `password`.
HasCredentials(name, password) ==
    \E i \in Ids(db, "users") :
        /\ db.users[i].username = name \/ db.users[i].email = name
        /\ verify_password(password, db.users[i].password)

\* C15: a login succeeds, with a bearer token, if and only if some
\* registered identity has the submitted name as its username or its email
\* and a hash that verifies the submitted password; every other login is
\* the one 401 "Incorrect username or password".
C15_LoginIffCredentials ==
    [][\A name \in Usernames \cup Emails, password \in {"pw", "admin"} :
          login_for_access_token(name, password) =>
              IF HasCredentials(name, password)
              THEN /\ last'.status = 200
                   /\ token' # <<>>
              ELSE /\ last'.status = 401
                   /\ last'.detail = "Incorrect username or password"
                   /\ db' = db]_vars


(***************************************************************************)
(* The users under concurrent requests.  The routes of users.py are plain  *)
(* functions, which the server runs in a thread pool: between the queries   *)
(* of one request and its commit another request may commit.  The table    *)
(* users has a UNIQUE constraint on username and on email                   *)
(* (models.User), which the database checks at the commit.                 *)
(***************************************************************************)
IntegrityError_never(d) == FALSE

\* The UNIQUE constraints of users do not hold in d: the flush raises an
\* IntegrityError and nothing is written.
IntegrityError(d) ==
    \E i, j \in Ids(d, "users") :
        /\ i # j
        /\ d.users[i].username = d.users[j].username
              \/ d.users[i].email = d.users[j].email

\* crud.create_user whose queries saw the database `seen` and whose commit
\* finds the database d.
crud_create_user_stale(seen, d, user) ==
    LET checked == crud_create_user(seen, user)
        after == Insert(d, "users",
                        [username |-> user.username, email |-> user.email,
                         password |-> get_password_hash(user.password),
                         role_id |-> user.role_id])
    IN  IF checked.status # 200 THEN Raise(d, checked.status, checked.detail)
        ELSE IF IntegrityError(after) \/ user.role_id \notin Ids(d, "roles")
        THEN Raise(d, 500, "IntegrityError")
        ELSE Ok(after, d.nextid["users"])

\* crud.update_user whose queries saw `seen` and whose UPDATE and commit
\* find d.  The UPDATE writes every field of the schema: those that were
\* set, and the others as they were read.  On a row that is gone it writes
\* nothing, and db.refresh raises.
crud_update_user_stale(seen, d, user_id, user) ==
    LET checked == crud_update_user(seen, user_id, user)
        after == [d EXCEPT
                     !.users[user_id].password = checked.db.users[user_id].password,
                     !.users[user_id].email = checked.db.users[user_id].email]
    IN  IF checked.status # 200 THEN Raise(d, checked.status, checked.detail)
        ELSE IF user_id \notin Ids(d, "users")
        THEN Raise(d, 500, "InvalidRequestError")
        ELSE IF IntegrityError(after) THEN Raise(d, 500, "IntegrityError")
        ELSE Ok(after, user_id)

\* The database after the request `other` of another client, committed
\* whole.
Commit(d, other) ==
    CASE other.kind = "create_user" -> crud_create_user(d, other.user).db
      [] other.kind = "update_user" ->
            crud_update_user(d, other.user_id, other.user).db
      [] other.kind = "delete_user" ->
            delete_object(d, "users", other.user_id).db

\* The request of a racing handler ended as `res`, on the database `mid`
\* that the other request left.
RespondAfter(op, caller, tid, req, mid, res) ==
    /\ db' = res.db
    /\ last' = [op |-> op, caller |-> caller,
                admin |-> caller # 0 /\ role_title(db, caller) = "Admin",
                tid |-> tid, pre |-> Row(mid, "users", tid), req |-> req,
                status |-> res.status, detail |-> res.detail, ret |-> res.ret,
                changed |-> res.db # mid]

\* POST /users/ while the request `other` commits between its queries and
\* its commit.
create_user_overlapped(user, other) ==
    LET mid == Commit(db, other)
    IN  /\ mid.nextid["users"] <= MaxUsers
        /\ RespondAfter("create_user", 0, 0, user, mid,
                        crud_create_user_stale(db, mid, user))
        /\ UNCHANGED <<secret, now, token, chat>>

\* PATCH /users/{current_user}/ of the user itself, while `other` commits
\* between its queries and its UPDATE.
update_user_overlapped(current_user, user, other) ==
    LET mid == Commit(db, other)
    IN  /\ current_user \in Ids(db, "users")
        /\ mid.nextid["users"] <= MaxUsers + 1
        /\ RespondAfter("update_user", current_user, current_user, user, mid,
                        crud_update_user_stale(db, mid, current_user, user))
        /\ UNCHANGED <<secret, now, token, chat>>

\* The registrations tried: two with one username, two with one email.
RaceUsers ==
    {[username |-> S_bob, email |-> S_bob_email, password |-> "pw", role_id |-> 2],
     [username |-> S_bob, email |-> S_a_at_b, password |-> "pw", role_id |-> 2],
     [username |-> S_a_at_b, email |-> S_bob_email, password |-> "pw", role_id |-> 2]}

\* The bodies of PATCH tried: an email, or a password; the empty string is
\* a password that can be set.
RaceUpdates ==
    {[email |-> <<e>>, password |-> <<>>] : e \in {S_bob_email, S_a_at_b}}
      \cup {[email |-> <<>>, password |-> <<p>>] : p \in {"", "pw"}}

\* The requests of the other client: a registration, a change of email, a
\* deletion.
OtherRequests ==
    {[kind |-> "create_user", user |-> user] : user \in RaceUsers}
      \cup {[kind |-> "update_user", user_id |-> i, user |-> user] :
               i \in Ids(db, "users") \ {1},
               user \in {u \in RaceUpdates : u.email # <<>>}}
      \cup {[kind |-> "delete_user", user_id |-> i] :
               i \in Ids(db, "users") \ {1}}

NextUsers ==
    \/ \E user \in RaceUsers : create_user(user)
    \/ \E cu \in Ids(db, "users"), user \in RaceUpdates :
          update_user(cu, cu, user)
    \/ \E cu \in Ids(db, "users") : delete_user(cu, cu)
    \/ \E user \in RaceUsers, other \in OtherRequests :
          create_user_overlapped(user, other)
    \/ \E cu \in Ids(db, "users"), user \in RaceUpdates,
          other \in OtherRequests :
          update_user_overlapped(cu, user, other)

SpecUsers == Init /\ [][NextUsers]_vars


\* The stored identities other than `id` that have the username or the
\* email of the request `req`.
Holders(id, req) ==
    {i \in Ids(db, "users") \ {id} :
        \/ "username" \in DOMAIN req /\ db.users[i].username = req.username
        \/ /\ "username" \in DOMAIN req
           /\ db.users[i].email = req.email
        \/ /\ "username" \notin DOMAIN req
           /\ req.email # <<>>
           /\ db.users[i].email = req.email[1]}

\* C16: no two stored identities share a username and no two share an
\* email, whatever registrations, updates and deletions ran and however
\* they overlapped; a registration or a change of email whose username or
\* email another identity holds is rejected; a rejected request leaves the
\* store as it was, and an accepted one is stored.
C16_UniqueUsernameAndEmail ==
    /\ \A i, j \in Ids(db, "users") :
          i # j => /\ db.users[i].username # db.users[j].username
                   /\ db.users[i].email # db.users[j].email
    /\ last.op \in {"create_user", "update_user"} =>
          /\ last.status # 200 => ~last.changed
          /\ Holders(IF last.op = "create_user" THEN last.ret ELSE last.tid,
                     last.req) # {}
                => last.status \in {403, 500}
    /\ (last.op = "create_user" /\ last.status = 200) =>
          /\ last.ret \in Ids(db, "users")
          /\ db.users[last.ret].username = last.req.username
          /\ db.users[last.ret].email = last.req.email
    /\ (last.op = "update_user" /\ last.status = 200
           /\ last.req.email # <<>>) =>
          db.users[last.tid].email = last.req.email[1]

\* A registration passed the check of crud.create_user, another request
\* took its username meanwhile, and its commit was refused.
C16_LostRace ==
    /\ last.op = "create_user"
    /\ last.status = 500
    /\ ~last.changed
    /\ \E i \in Ids(db, "users") : db.users[i].username = last.req.username


\* C17: the stored password of every identity is the output of the hash of
\* what was submitted, never the submitted text itself: after the seeding,
\* after a registration and after an update with any password, the empty
\* string included.
C17_PasswordAlwaysHashed ==
    \A i \in Ids(db, "users") :
        db.users[i].password = get_password_hash(db.users[i].password.text)


\* The instant at which the held token is to expire: its issue time plus
\* the ttl it was asked with (a login asks for ACCESS_TOKEN_EXPIRE_MINUTES),
\* or plus DEFAULT_EXPIRE_MINUTES without one.
Expiry ==
    token[1].iat + (IF token[1].delta = <<>> THEN Minutes(DEFAULT_EXPIRE_MINUTES)
                    ELSE token[1].delta[1])

\* The subject of the held token is one the resolution finds a user for.
KnownSubject ==
    /\ token[1].jwt.sub # <<>>
    /\ get_user_by_username_or_email(db, token[1].jwt.sub[1]) # 0

\* C18: a token expires at its issue time plus its ttl, plus 15 minutes
\* when it has none, plus 60 minutes when a login issued it: with a known
\* subject it resolves at every instant before that and fails with 401 at
\* every instant after it.
C18_TokenLifetime ==
    (token # <<>> /\ KnownSubject) =>
        /\ now < Expiry => Resolved.status = 200
        /\ now > Expiry => Resolved.status = 401


(***************************************************************************)
(* The process restarts.  security_token.SECRET_KEY is made when the       *)
(* module is imported, once in a process; no SECRET_KEY is configured, so   *)
(* it is secrets.token_hex(64).  The database outlives the process, the    *)
(* registry of the chat does not.                                          *)
(***************************************************************************)
secrets_token_hex_again(old) == old

\* secrets.token_hex(64) in a process that follows the one whose key was
\* `old`: 512 random bits, a key no process had before.
secrets_token_hex(old) == old + 1

\* main.startup on the database d: the two roles when there is none, the
\* user admin when no user has that username.
startup_seed(d) ==
    LET with_roles ==
            IF Ids(d, "roles") # {} THEN d
            ELSE Insert(Insert(d, "roles", [title |-> "Admin"]),
                        "roles", [title |-> "User"])
    IN  IF \E i \in Ids(d, "users") : d.users[i].username = S_admin
        THEN with_roles
        ELSE Insert(with_roles, "users",
                    [username |-> S_admin, email |-> S_admin_email,
                     password |-> get_password_hash("admin"), role_id |-> 1])

\* The process ends and a new one starts: a new key, startup on the
\* database as it is.  When the commit of startup fails the process does
\* not come up.
startup ==
    /\ secret <= MaxRestarts
    /\ ~IntegrityError(startup_seed(db))
    /\ 1 \in Ids(startup_seed(db), "roles")
    /\ secret' = secrets_token_hex(secret)
    /\ db' = startup_seed(db)
    /\ chat' = InitChat
    /\ last' = NoRequest
    /\ UNCHANGED <<now, token>>

RestartInstants ==
    UNION {{m, m + TicksPerSecond} :
             m \in {0, Minutes(ACCESS_TOKEN_EXPIRE_MINUTES)}}

NextRestart ==
    \/ \E user \in ResolveUsers : create_user(user)
    \/ \E cu \in Ids(db, "users") : delete_user(cu, cu)
    \/ \E name \in {S_admin, S_bob}, pw \in {"pw", "admin"} :
          login_for_access_token(name, pw)
    \/ read_users_me
    \/ \E t \in RestartInstants : Tick(t)
    \/ startup

SpecRestart == Init /\ [][NextRestart]_vars

\* C19: the key is made once in a process.  A restart makes a key that no
\* token was signed with, so every token issued before it fails resolution
\* with 401 from then on; no other step changes the key, and within the
\* process that issued it an unexpired token of a known subject resolves.
C19_SecretPerProcess ==
    /\ [][startup =>
            /\ secret' > secret
            /\ token # <<>> =>
                  get_user(token[1].jwt, db', secret', now').status = 401]_vars
    /\ [][secret' # secret => startup]_vars
    /\ [](token # <<>> =>
            /\ token[1].jwt.key <= secret
            /\ token[1].jwt.key < secret => Resolved.status = 401
            /\ (token[1].jwt.key = secret /\ KnownSubject /\ now < Expiry)
                  => Resolved.status = 200)

\* A token that resolved in the process that issued it is refused after a
\* restart, its subject still registered and its lifetime not over.
C19_RefusedAfterRestart ==
    /\ token # <<>>
    /\ token[1].jwt.key < secret
    /\ KnownSubject
    /\ now < Expiry
    /\ last.op = "read_users_me"
    /\ last.status = 401


\* What connection d has been sent by the broadcasts of the handler of c,
\* in the order it was sent.
Observed(d, c) ==
    LET from_c == SelectSeq(chat.log[d], LAMBDA e : e.by = c)
    IN  [i \in 1..Len(from_c) |-> from_c[i].data]

\* The events of a whole life of connection c: "connected", the messages
\* its client sent, "left".
LifeOf(c) ==
    <<response(db, chat.user[c], "connected to the chat")>>
      \o [i \in 1..chat.sent[c] |->
            [user |-> db.users[chat.user[c]].username,
             message |-> Texts[c][i], connection |-> FALSE]]
      \o <<response(db, chat.user[c], "left the chat")>>

\* C20: when the handler of an admitted connection c has ended, every
\* other connection that was registered from the registration of c until
\* then, and is open, has been sent, of c: its "connected" event first, then the messages
\* c sent, unchanged and in their order, and its "left" event last.
C20_PerSenderOrder ==
    \A c \in Conns :
        (chat.pc[c] \in {"done", "crashed"} /\ chat.user[c] # 0) =>
            \A d \in chat.present[c] \ {c} :
                chat.open[d] => Observed(d, c) = LifeOf(c)


\* The state of connection c in `ch`: Connecting until its handler has
\* registered it, Open while its handler relays, Closed once the connection
\* was refused or its handler has left the receive loop or ended.
Phase(ch, c) ==
    CASE ch.pc[c] \in {"idle", "accept"} -> "Connecting"
      [] ch.pc[c] \in {"hello", "receive", "relay"} -> "Open"
      [] OTHER -> "Closed"

Registrations(ch, c) ==
    Cardinality({i \in 1..Len(ch.active_connections) :
                    ch.active_connections[i] = c})

\* C21: a connection goes from Connecting to Open to Closed and no other
\* way.  It is registered only by the step that follows the accept of a
\* connection whose token resolved to a user, it is never in the registry
\* twice, it never leaves Closed, and once unregistered it is never
\* registered again.
C21_ConnectionStateMachine ==
    /\ [](\A c \in Conns :
            /\ Registrations(chat, c) <= 1
            /\ Registrations(chat, c) = 1 =>
                  /\ chat.pc[c] \notin {"idle", "accept", "refused"}
                  /\ chat.user[c] \in Ids(db, "users")
            /\ chat.pc[c] \in {"left", "done"} => Registrations(chat, c) = 0)
    /\ [][\A c \in Conns :
            /\ <<Phase(chat, c), Phase(chat', c)>> \in
                  {<<"Connecting", "Connecting">>, <<"Connecting", "Open">>,
                   <<"Connecting", "Closed">>, <<"Open", "Open">>,
                   <<"Open", "Closed">>, <<"Closed", "Closed">>}
            /\ Registrations(chat', c) > Registrations(chat, c) =>
                  /\ chat.pc[c] = "accept"
                  /\ Phase(chat, c) = "Connecting"
                  /\ Registrations(chat, c) = 0
            /\ Registrations(chat', c) < Registrations(chat, c) =>
                  /\ Phase(chat, c) = "Open"
                  /\ Phase(chat', c) = "Closed"]_vars

\* One connection has gone the whole way and is unregistered, another is
\* registered.
C21_WholeLife ==
    \E c, d \in Conns :
        /\ chat.pc[c] = "done"
        /\ Registrations(chat, c) = 0
        /\ Registrations(chat, d) = 1


\* The caller of the last request is neither an admin nor an owner of its
\* target: of a comment, its author and the author of its question.
NeitherAdminNorOwner ==
    /\ ~last.admin
    /\ last.caller # OwnerOfTarget
    /\ last.op = "update_comment" =>
          last.caller # db.questions[last.pre.question_id].author_id

\* C22: a protected operation (question edit and delete, comment edit and
\* delete, notification delete, user edit and delete) on an existing target
\* by a caller that is neither Admin nor owner ends as Forbidden (403):
\* not as a 400, not as a success or an empty answer.
C22_DenialIsForbidden ==
    (/\ last.op \in OwnerOps \cup {"update_comment"}
     /\ last.pre # <<>>
     /\ NeitherAdminNorOwner)
    => last.status = 403


(***************************************************************************)
(* Logins and the identities their tokens resolve to.                      *)
(***************************************************************************)
\* The registrations tried: a user whose username has the shape of an
\* e-mail address, and a user whose e-mail is that address.
BindingUsers ==
    {[username |-> S_a_at_b, email |-> S_bob_email, password |-> "pw", role_id |-> 2],
     [username |-> S_bob, email |-> S_a_at_b, password |-> "pw2", role_id |-> 2]}

NextBinding ==
    \/ \E user \in BindingUsers : create_user(user)
    \/ \E cu \in Ids(db, "users") : delete_user(cu, cu)
    \/ \E name \in {S_bob, S_a_at_b, S_bob_email}, pw \in {"pw", "pw2"} :
          login_for_access_token(name, pw)
    \/ read_users_me
    \/ \E t \in RestartInstants : Tick(t)

SpecBinding == Init /\ [][NextBinding]_vars

\* C23: the token of a login never resolves to a stored identity other
\* than the one that logged in, whatever registrations, deletions and
\* registrations anew came before or after the login.
C23_TokenBinding ==
    (token # <<>> /\ token[1].uid # 0 /\ Resolved.status = 200)
        => Resolved.ret = token[1].uid


(***************************************************************************)
(* Who comes to hold the role Admin.                                       *)
(***************************************************************************)
\* The registrations tried: UserCreate carries the role_id, any id.
EscalationUsers ==
    {[username |-> S_bob, email |-> S_bob_email, password |-> "pw",
      role_id |-> r] : r \in 1..3}

NextEscalation ==
    \/ \E user \in EscalationUsers : create_user(user)
    \/ \E cu \in Ids(db, "users"), id \in Ids(db, "users") : delete_user(cu, id)
    \/ \E cu \in Ids(db, "users"), id \in Ids(db, "users"),
          user \in UserUpdates : update_user(cu, id, user)
    \/ \E cu \in Ids(db, "users"), role \in RoleCreates : create_role(cu, role)
    \/ \E cu \in Ids(db, "users"), key \in RoleKeys, role \in RoleUpdates :
          update_role(cu, key, role)
    \/ \E cu \in Ids(db, "users"), key \in RoleKeys : delete_role(cu, key)

SpecEscalation == Init /\ [][NextEscalation]_vars

\* The identities of d whose role has the title "Admin".
Admins(d) == {i \in Ids(d, "users") : role_title(d, i) = "Admin"}

\* C24: every step that gives the role Admin to an identity that did not
\* hold it is a request of a caller that was Admin when it arrived; the
\* Admins are those that startup seeded and those such requests made.
C24_NoPrivilegeEscalation ==
    [][Admins(db') \ Admins(db) # {} => last'.admin]_vars


(***************************************************************************)
(* Whom a new question or comment is attributed to.                        *)
(***************************************************************************)
\* The bodies tried: author_id is Optional[int] in both schemas; left out,
\* the id of the seeded admin, the id of a user.
AuthorIds == {<<>>, <<1>>, <<2>>}

NextAuthorship ==
    \/ \E user \in ForumUsers : create_user(user)
    \/ \E cu \in Ids(db, "users"), author_id \in AuthorIds :
          create_question(cu, [title |-> "t", content |-> "c",
                               author_id |-> author_id, tags |-> <<>>])
    \/ \E cu \in Ids(db, "users"), id \in Ids(db, "questions"),
          author_id \in AuthorIds :
          create_comment(cu, [content |-> "c", author_id |-> author_id,
                              question_id |-> id])
    \/ \E cu \in Ids(db, "users"), id \in Ids(db, "questions") :
          delete_question(cu, id)
    \/ \E cu \in Ids(db, "users"), id \in Ids(db, "comments") :
          delete_comment(cu, id)

SpecAuthorship == Init /\ [][NextAuthorship]_vars

\* C25: a question or a comment that a caller who is not an admin has
\* created is stored with the id of that caller as its author_id, whatever
\* author_id the body of the request carries.
C25_AuthorIsCaller ==
    (/\ last.op \in {"create_question", "create_comment"}
     /\ last.status = 200
     /\ ~last.admin)
    => IF last.op = "create_question"
       THEN db.questions[last.ret].author_id = last.caller
       ELSE db.comments[last.ret].author_id = last.caller


(***************************************************************************)
(* What changes a stored question.                                         *)
(***************************************************************************)
\* The views given to PATCH /questions/{question_id}/views/.
ViewCounts == {0, 1, 7}

NextFrame ==
    \/ \E user \in ForumUsers : create_user(user)
    \/ \E cu \in Ids(db, "users"), question \in QuestionCreates :
          create_question(cu, question)
    \/ \E cu \in Ids(db, "users"), id \in Ids(db, "questions"),
          question \in QuestionUpdates : update_question(cu, id, question)
    \/ \E id \in Ids(db, "questions"), views \in ViewCounts :
          update_question_views(id, views)
    \/ \E cu \in Ids(db, "users"), id \in Ids(db, "questions") :
          create_comment(cu, [content |-> "c", author_id |-> <<>>,
                              question_id |-> id])
    \/ \E cu \in Ids(db, "users"), id \in Ids(db, "questions") :
          delete_question(cu, id)

SpecFrame == Init /\ [][NextFrame]_vars

\* C26: a step that changes an attribute (title, content, tags, views) of a
\* question that exists before and after it is a request of an admin or of
\* the author of that question; the update of the views is no exception.
C26_QuestionFrame ==
    [][\A q \in Ids(db, "questions") \cap Ids(db', "questions") :
          db'.questions[q] # db.questions[q] =>
              \/ last'.admin
              \/ last'.caller = db.questions[q].author_id]_vars


\* Connection d has been sent the broadcast x and later the broadcast y.
SentBefore(d, x, y) ==
    \E i, j \in 1..Len(chat.log[d]) :
        /\ i < j
        /\ chat.log[d][i] = x
        /\ chat.log[d][j] = y

ArticleRatingType == <<"likes", "dislikes">>

\* names[names.index(rating_type) - 1]: list.index counts from 0 and a
\* negative index counts from the end of the list.
other_rating(rating_type) ==
    LET index == (CHOOSE i \in 1..Len(ArticleRatingType) :
                      ArticleRatingType[i] = rating_type) - 1
    IN  ArticleRatingType[((index - 1) % Len(ArticleRatingType)) + 1]

pop_index_keeps(data, x) == data

\* data.pop(data.index(x)): the first occurrence goes.
pop_index(data, x) ==
    LET first == CHOOSE i \in 1..Len(data) :
                    data[i] = x /\ \A j \in 1..(i - 1) : data[j] # x
    IN  [i \in 1..(Len(data) - 1) |->
            IF i < first THEN data[i] ELSE data[i + 1]]

crud_update_article_rating_one_list(d, article_id, user_id, rating_type) ==
    IF article_id \notin Ids(d, "articles")
    THEN Raise(d, 404, "with this id does not exist")
    ELSE LET data_main == d.articles[article_id][rating_type]
         IN  Ok([d EXCEPT !.articles[article_id][rating_type] =
                    IF user_id \in Range(data_main)
                    THEN pop_index(data_main, user_id)
                    ELSE Append(data_main, user_id)],
                article_id)

\* crud.update_article_rating: the user leaves the list they are in;
\* otherwise they join it and leave the other list.
crud_update_article_rating(d, article_id, user_id, rating_type) ==
    IF article_id \notin Ids(d, "articles")
    THEN Raise(d, 404, "with this id does not exist")
    ELSE LET data_main == d.articles[article_id][rating_type]
             secondary == other_rating(rating_type)
             data_secondary == d.articles[article_id][secondary]
         IN  IF user_id \in Range(data_main)
             THEN Ok([d EXCEPT !.articles[article_id][rating_type] =
                                   pop_index(data_main, user_id)],
                     article_id)
             ELSE Ok([d EXCEPT !.articles[article_id] =
                         [@ EXCEPT
                            ![rating_type] = Append(data_main, user_id),
                            ![secondary] =
                                IF user_id \in Range(data_secondary)
                                THEN pop_index(data_secondary, user_id)
                                ELSE data_secondary]],
                     article_id)

\* PATCH /articles/{article_id}/{rating_type}/: any authenticated user.
update_article_rating(current_user, article_id, rating_type) ==
    /\ current_user \in Ids(db, "users")
    /\ Respond("update_article_rating", current_user, "articles", article_id,
               rating_type,
               crud_update_article_rating(db, article_id, current_user,
                                          rating_type))
    /\ UNCHANGED <<secret, now, token, chat>>

NextRating ==
    \/ \E user \in ForumUsers : create_user(user)
    \/ \E cu \in Ids(db, "users"), id \in TargetIds("users") :
          delete_user(cu, id)
    \/ \E cu \in Ids(db, "users"), article \in ArticleCreates :
          create_article(cu, article)
    \/ \E cu \in Ids(db, "users"), id \in 1..db.nextid["articles"] :
          delete_article(cu, id)
    \/ \E cu \in Ids(db, "users"), id \in 1..db.nextid["articles"],
          rating_type \in Range(ArticleRatingType) :
          update_article_rating(cu, id, rating_type)

SpecRating == Init /\ [][NextRating]_vars

Likers(d, a) == Range(d.articles[a].likes)

Dislikers(d, a) == Range(d.articles[a].dislikes)

\* C28: whatever sequence of rating operations the users make, no user is
\* in the likes and in the dislikes of one article, and no user is twice in
\* either list.
C28_RatingExclusivity ==
    \A a \in Ids(db, "articles") :
        /\ Likers(db, a) \cap Dislikers(db, a) = {}
        /\ Len(db.articles[a].likes) = Cardinality(Likers(db, a))
        /\ Len(db.articles[a].dislikes) = Cardinality(Dislikers(db, a))

\* A user who disliked an article has just liked it, beside another user
\* who likes it too.
C28_SwitchedSides ==
    /\ last.op = "update_article_rating"
    /\ last.status = 200
    /\ last.req = "likes"
    /\ last.caller \in Range(last.pre.dislikes)
    /\ last.tid \in Ids(db, "articles")
    /\ last.caller \in Likers(db, last.tid)
    /\ Cardinality(Likers(db, last.tid)) = 2


\* The rating user_id gave to the article row: in the list or not.
RatingOf(row, rating_type, user_id) == user_id \in Range(row[rating_type])

\* C29: the same rating of the same article by the same user, applied
\* twice in a row, leaves the user in the rated list exactly when they were
\* in it before the first application; and a rating by a user changes no
\* other user's membership in the likes or dislikes of any article.
C29_RatingToggle ==
    /\ [][(/\ last.op = "update_article_rating"
           /\ last'.op = "update_article_rating"
           /\ last.status = 200
           /\ last'.status = 200
           /\ last'.caller = last.caller
           /\ last'.tid = last.tid
           /\ last'.req = last.req)
          => (RatingOf(db'.articles[last.tid], last.req, last.caller)
                 <=> RatingOf(last.pre, last.req, last.caller))]_vars
    /\ [][last'.op = "update_article_rating"
          => \A a \in Ids(db, "articles") :
                /\ a \in Ids(db', "articles")
                /\ \A u \in Ids(db, "users") \ {last'.caller},
                      rating_type \in Range(ArticleRatingType) :
                      RatingOf(db'.articles[a], rating_type, u)
                          <=> RatingOf(db.articles[a], rating_type, u)]_vars

\* The only user there ever was likes the only article there ever was, and
\* the same rating takes the like back.
C29_LikeTakenBack ==
    /\ last.op = "update_article_rating"
    /\ last.status = 200
    /\ last.req = "likes"
    /\ db.nextid["users"] = 2
    /\ db.nextid["articles"] = 2
    /\ last.pre.likes = <<last.caller>>
    /\ last.pre.dislikes = <<>>
    /\ last.tid \in Ids(db, "articles")
    /\ db.articles[last.tid].likes = <<>>


\* Lists of tag titles: None, valid titles, and lists with a title that has
\* no alphanumeric character, first or after valid ones.
TagLists ==
    {<<>>, << <<"a">> >>, << <<"-">> >>, << <<"b">>, <<"-">> >>,
     << <<"a">>, <<"b">>, <<"!">> >>}

NextTags ==
    \/ \E user \in ForumUsers : create_user(user)
    \/ \E cu \in Ids(db, "users"), tags \in TagLists :
          create_question(cu, [title |-> "t", content |-> "c",
                               author_id |-> <<>>, tags |-> tags])
    \/ \E cu \in Ids(db, "users"), id \in 1..db.nextid["questions"],
          title \in {<<>>, <<"t2">>}, tags \in TagLists :
          update_question(cu, id, [title |-> title, content |-> <<>>,
                                   views |-> <<>>, tags |-> tags])
    \/ \E cu \in Ids(db, "users"), id \in TargetIds("questions") :
          delete_question(cu, id)

SpecTags == Init /\ [][NextTags]_vars

\* The positions of the list whose title is wrong.
WrongTitles(tags) == {i \in 1..Len(tags) : ~tag_title_ok(lower(tags[i]))}

\* C30: create_question, or update_question of a question that exists,
\* given a list of tags with a wrong title answers 400 and the database is
\* the one the request found: no question, no tag, no link of a tag to a
\* question is added, changed or removed, whatever valid titles precede
\* the wrong one.
C30_AtomicFailureOnBadTag ==
    (/\ last.op \in {"create_question", "update_question"}
     /\ WrongTitles(last.req.tags) # {}
     /\ last.op = "update_question" => last.pre # <<>>)
    => last.status = 400 /\ ~last.changed

\* The author of a question tagged "a" renames it and gives it the tags
\* "b" (which no question has yet) and "-": refused for the tag.
C30_ValidBeforeWrong ==
    /\ last.op = "update_question"
    /\ last.pre # <<>>
    /\ last.caller = last.pre.author_id
    /\ last.pre.tags # {}
    /\ last.req.title = <<"t2">>
    /\ last.req.tags = << <<"b">>, <<"-">> >>
    /\ First(db, "tags", "title", <<"b">>) = 0
    /\ last.status = 400
    /\ last.detail = "Wrong tag title."

=============================================================================
